---- MODULE Spec2Model ----
(***************************************************************************)
(* Model of smart-object-utils: the strategy-selecting deepClone engine    *)
(* (core/deepClone.js), its three strategies (JsonStrategy,                *)
(* StructuredStrategy, RecursiveStrategy) and the type predicates they     *)
(* use, over an explicit heap of JavaScript objects.                       *)
(*                                                                         *)
(* A behaviour is one use of the library: the caller builds a value        *)
(* (AddNew, AddRef, AddAtomic, AddKeyed, Advance), then calls deepClone on *)
(* it with some options (CallDeepClone).  heap is the object store, root   *)
(* the value built, pre the heap as it was when the call was made, opts    *)
(* the options, result / err the value returned or the message raised,     *)
(* and used the strategy whose clone ran.  call names the operation of the *)
(* library that was called, with its arguments other than the root value,  *)
(* and outs holds the values an operation yields besides result.           *)
(*                                                                         *)
(* A JavaScript value is a pair <<tag, n>>.  Atomic values carry their own *)
(* tag; every object (plain object, array, Map, Set, Date, RegExp,         *)
(* function) lives in the heap and is denoted by <<"ref", address>>, so    *)
(* that === on objects is equality of addresses.                           *)
(***************************************************************************)
EXTENDS Integers, Sequences, FiniteSets, TLC

VARIABLES heap, root, cur, phase, pre, opts, result, err, used, call, outs

vars == <<heap, root, cur, phase, pre, opts, result, err, used, call, outs>>

-----------------------------------------------------------------------------
(* Bounds of the explored inputs *)

(* objects in a source graph, and entries (properties, elements) added to  *)
(* it by the caller                                                        *)
MaxNodes == 3
MaxEntries == 2

(* the length of the path strings parsed *)
MaxChars == 4

(* maxDepth = Infinity, the default of the destructuring in deepClone *)
Infinity == 1000

-----------------------------------------------------------------------------
(* Values *)

Undefined == <<"undefined", 0>>
Null == <<"null", 0>>
Ref(a) == <<"ref", a>>
Str(n) == <<"string", n>>
Num(n) == <<"number", n>>

(* the string produced by Date.prototype.toISOString for the time value t *)
ISOString(t) == <<"isostring", t>>

IsRef(v) == v[1] = "ref"

(* the atomic values the inputs are drawn from *)
Atomics ==
    { Undefined, Null, <<"boolean", 1>>, Num(1), Str(1),
      <<"symbol", 1>>, <<"bigint", 1>> }

(* atomic values placed inside containers *)
InnerAtomics == { Num(1), <<"symbol", 1>> }

Kinds == {"object", "array", "map", "set", "date", "regexp", "function"}
ContainerKinds == {"object", "array", "map", "set"}

(* an empty object of the given kind; tick is the time value of a Date and  *)
(* stands for the (source, flags) pair of a RegExp                          *)
NewObject(kind, tick) == [kind |-> kind, keys |-> <<>>, vals |-> <<>>, tick |-> tick]

(* new Object(), [], new Map(), new Set(): tick is unused *)
Empty(kind) == NewObject(kind, 0)

(* the object the caller creates at address a: Dates and RegExps differ    *)
(* from one another in their time value / pattern                          *)
Fresh(kind, a) == NewObject(kind, IF kind \in {"date", "regexp"} THEN a ELSE 0)

(* typeof v *)
TypeOf(h, v) ==
    IF IsRef(v)
    THEN IF h[v[2]].kind = "function" THEN "function" ELSE "object"
    ELSE IF v[1] = "null" THEN "object"
    ELSE IF v[1] = "isostring" THEN "string"
    ELSE IF v[1] = "builtin" THEN "function"
    ELSE v[1]

IsContainer(h, v) == IsRef(v) /\ h[v[2]].kind \in ContainerKinds

-----------------------------------------------------------------------------
(* Types (core/types.js) *)

isPrimitive(h, v) ==
    LET type == TypeOf(h, v)
    IN  v \in {Null, Undefined} \/ (type # "object" /\ type # "function")

-----------------------------------------------------------------------------
(* Map.prototype.set, Set.prototype.add, property assignment *)

InSeq(s, x) == \E i \in 1..Len(s) : s[i] = x

IndexOf(s, x) == CHOOSE i \in 1..Len(s) : s[i] = x

(* o[key] = v and map.set(key, v): an existing key keeps its position *)
Assign(o, key, v) ==
    IF InSeq(o.keys, key)
    THEN [o EXCEPT !.vals[IndexOf(o.keys, key)] = v]
    ELSE [o EXCEPT !.keys = Append(@, key), !.vals = Append(@, v)]

(* set.add(v) *)
SetAdd(o, v) == IF InSeq(o.vals, v) THEN o ELSE [o EXCEPT !.vals = Append(@, v)]

(* cloned[i] = v for i = cloned.length *)
Push(o, v) == [o EXCEPT !.vals = Append(@, v)]

-----------------------------------------------------------------------------
(* RecursiveStrategy (strategies/recursiveStrategy.js)                      *)
(* seen is the WeakMap: a function from source addresses to clone addresses *)

NoSeen == [a \in {} |-> 0]

(* the number of entries the loops of RecursiveStrategy.clone visit: for   *)
(* an array obj.length, its elements; the named properties an array may    *)
(* hold besides (listed in keys, their values last in vals) are not copied *)
NumCloned(o) == IF o.kind = "array" THEN Len(o.vals) - Len(o.keys) ELSE Len(o.vals)

RECURSIVE RecursiveClone(_, _, _)
RECURSIVE CloneEntries(_, _, _, _, _)

(* Variants of the loops, each changed the way a slip in the code would     *)
(* change it.                                                              *)

(* cloned[key] = obj[key]: the children are copied by reference *)
CloneEntriesByReference(h, seen, a, c, i) ==
    IF i > NumCloned(h[a]) THEN [h |-> h, seen |-> seen]
    ELSE
      LET kind == h[a].kind
      IN  CloneEntries(
            [h EXCEPT ![c] =
               IF kind = "array" THEN Push(@, h[a].vals[i])
               ELSE IF kind = "set" THEN SetAdd(@, h[a].vals[i])
               ELSE Assign(@, h[a].keys[i], h[a].vals[i])],
            seen, a, c, i + 1)

(* cloned.set(key, clone(value)): the keys of a Map are not cloned *)
CloneEntriesSharedKeys(h, seen, a, c, i) ==
    IF i > NumCloned(h[a]) THEN [h |-> h, seen |-> seen]
    ELSE
      LET kind == h[a].kind
          v == RecursiveClone(h, seen, h[a].vals[i])
      IN  CloneEntries(
            [v.h EXCEPT ![c] =
               IF kind = "array" THEN Push(@, v.v)
               ELSE IF kind = "set" THEN SetAdd(@, v.v)
               ELSE Assign(@, h[a].keys[i], v.v)],
            v.seen, a, c, i + 1)

(* every child is cloned with the identity map as it was on entry: what a  *)
(* sibling registered is forgotten                                         *)
CloneEntriesForgetful(h, seen, a, c, i) ==
    IF i > NumCloned(h[a]) THEN [h |-> h, seen |-> seen]
    ELSE
      LET kind == h[a].kind
      IN  IF kind = "map"
          THEN LET k == RecursiveClone(h, seen, h[a].keys[i])
                   v == RecursiveClone(k.h, seen, h[a].vals[i])
               IN  CloneEntries([v.h EXCEPT ![c] = Assign(@, k.v, v.v)],
                                seen, a, c, i + 1)
          ELSE LET v == RecursiveClone(h, seen, h[a].vals[i])
               IN  CloneEntries(
                     [v.h EXCEPT ![c] =
                        IF kind = "array" THEN Push(@, v.v)
                        ELSE IF kind = "set" THEN SetAdd(@, v.v)
                        ELSE Assign(@, h[a].keys[i], v.v)],
                     seen, a, c, i + 1)

(* the loops of RecursiveStrategy.clone: entries i.. of source a into c *)
CloneEntries(h, seen, a, c, i) ==
    IF i > NumCloned(h[a]) THEN [h |-> h, seen |-> seen]
    ELSE
      LET kind == h[a].kind
      IN  IF kind = "map"
          THEN LET k == RecursiveClone(h, seen, h[a].keys[i])
                   v == RecursiveClone(k.h, k.seen, h[a].vals[i])
               IN  CloneEntries([v.h EXCEPT ![c] = Assign(@, k.v, v.v)],
                                v.seen, a, c, i + 1)
          ELSE LET v == RecursiveClone(h, seen, h[a].vals[i])
               IN  CloneEntries(
                     [v.h EXCEPT ![c] =
                        IF kind = "array" THEN Push(@, v.v)
                        ELSE IF kind = "set" THEN SetAdd(@, v.v)
                        ELSE Assign(@, h[a].keys[i], v.v)],
                     v.seen, a, c, i + 1)

(* Variant: the new container is made before seen is looked up, so an     *)
(* object met again costs one more allocation                              *)
RecursiveCloneAllocatingFirst(h, seen, obj) ==
    IF obj = Null \/ TypeOf(h, obj) # "object"
    THEN [h |-> h, seen |-> seen, v |-> obj]
    ELSE
      LET a == obj[2]
          c == Len(h) + 1
      IN  IF h[a].kind \in {"date", "regexp"} /\ a \notin DOMAIN seen
          THEN [h |-> Append(h, NewObject(h[a].kind, h[a].tick)),
                seen |-> seen, v |-> Ref(c)]
          ELSE IF a \in DOMAIN seen
          THEN [h |-> Append(h, Empty(h[a].kind)), seen |-> seen, v |-> Ref(seen[a])]
          ELSE
            LET r == CloneEntries(Append(h, Empty(h[a].kind)),
                                  (a :> c) @@ seen, a, c, 1)
            IN  [h |-> r.h, seen |-> r.seen, v |-> Ref(c)]

RecursiveClone(h, seen, obj) ==
    IF obj = Null \/ TypeOf(h, obj) # "object"
    THEN [h |-> h, seen |-> seen, v |-> obj]
    ELSE
      LET a == obj[2]
          c == Len(h) + 1
      IN  IF a \in DOMAIN seen
          THEN [h |-> h, seen |-> seen, v |-> Ref(seen[a])]
          ELSE IF h[a].kind \in {"date", "regexp"}
          THEN [h |-> Append(h, NewObject(h[a].kind, h[a].tick)),
                seen |-> seen, v |-> Ref(c)]
          ELSE
            LET r == CloneEntries(Append(h, Empty(h[a].kind)),
                                  (a :> c) @@ seen, a, c, 1)
            IN  [h |-> r.h, seen |-> r.seen, v |-> Ref(c)]

RecursiveCanHandle == TRUE

-----------------------------------------------------------------------------
(* JSON.stringify / JSON.parse, the host pair used by JsonStrategy.        *)
(* The text is represented by its syntax tree:                             *)
(*   [t |-> "object" | "array" | "string" | "isostring" | "number" |       *)
(*         "boolean" | "null",                                             *)
(*    n |-> the string or number, keys |-> member names, kids |-> members] *)
(* A serialization yields [throws, undef, doc]: it raises a TypeError      *)
(* (cycle, BigInt), yields undefined (undefined, symbol, function), or     *)
(* yields a document.                                                      *)

Leaf(t, n) == [t |-> t, n |-> n, keys |-> <<>>, kids |-> <<>>]
Threw == [throws |-> TRUE, undef |-> FALSE, doc |-> Leaf("null", 0)]
Omitted == [throws |-> FALSE, undef |-> TRUE, doc |-> Leaf("null", 0)]
Text(d) == [throws |-> FALSE, undef |-> FALSE, doc |-> d]

RECURSIVE SerializeJSONProperty(_, _, _)
RECURSIVE SerializeMembers(_, _, _, _, _)

(* members i.. of object/array a appended to the document acc; stack holds *)
(* the objects being serialized                                            *)
SerializeMembers(h, stack, a, i, acc) ==
    IF i > Len(h[a].vals) THEN Text(acc)
    ELSE
      LET m == SerializeJSONProperty(h, stack, h[a].vals[i])
      IN  IF m.throws THEN Threw
          ELSE IF h[a].kind = "array"
          THEN SerializeMembers(h, stack, a, i + 1,
                 [acc EXCEPT !.kids =
                    Append(@, IF m.undef THEN Leaf("null", 0) ELSE m.doc)])
          ELSE IF m.undef
          THEN SerializeMembers(h, stack, a, i + 1, acc)
          ELSE SerializeMembers(h, stack, a, i + 1,
                 [acc EXCEPT !.keys = Append(@, h[a].keys[i][2]),
                             !.kids = Append(@, m.doc)])

SerializeJSONProperty(h, stack, v) ==
    IF ~IsRef(v)
    THEN CASE v[1] \in {"null", "boolean", "string", "isostring", "number"} ->
                  Text(Leaf(v[1], v[2]))
           [] v[1] = "bigint" -> Threw
           [] OTHER -> Omitted
    ELSE
      LET a == v[2]
          kind == h[a].kind
      IN  IF kind = "function" THEN Omitted
          ELSE IF kind = "date"
          THEN Text(Leaf("isostring", ISOString(h[a].tick)[2]))
          ELSE IF a \in stack THEN Threw
          ELSE IF kind = "array"
          THEN SerializeMembers(h, stack \cup {a}, a, 1, Leaf("array", 0))
          ELSE IF kind = "object"
          THEN SerializeMembers(h, stack \cup {a}, a, 1, Leaf("object", 0))
          ELSE Text(Leaf("object", 0))

JSONStringify(h, v) == SerializeJSONProperty(h, {}, v)

RECURSIVE JSONParse(_, _)
RECURSIVE ParseMembers(_, _, _, _)

(* members i.. of the document d stored into the new object c *)
ParseMembers(h, d, c, i) ==
    IF i > Len(d.kids) THEN h
    ELSE
      LET m == JSONParse(h, d.kids[i])
      IN  ParseMembers(
            [m.h EXCEPT ![c] =
               IF d.t = "array" THEN Push(@, m.v)
               ELSE Assign(@, Str(d.keys[i]), m.v)],
            d, c, i + 1)

JSONParse(h, d) ==
    CASE d.t \in {"null", "boolean", "string", "isostring", "number"} ->
           [h |-> h, v |-> <<d.t, d.n>>]
      [] OTHER ->
           LET c == Len(h) + 1
           IN  [h |-> ParseMembers(Append(h, Empty(d.t)), d, c, 1), v |-> Ref(c)]

-----------------------------------------------------------------------------
(* structuredClone, the host primitive used by StructuredStrategy: a deep  *)
(* copy that keeps every object in its memory map (Dates and RegExps       *)
(* included) and raises DataCloneError on a function or a symbol.          *)

RECURSIVE StructuredCopy(_, _, _)
RECURSIVE CopyEntries(_, _, _, _, _)

CopyEntries(h, memory, a, c, i) ==
    IF i > Len(h[a].vals) THEN [h |-> h, memory |-> memory, throws |-> FALSE]
    ELSE
      LET kind == h[a].kind
          k == IF kind = "map"
               THEN StructuredCopy(h, memory, h[a].keys[i])
               ELSE [h |-> h, memory |-> memory, v |-> Undefined, throws |-> FALSE]
          v == StructuredCopy(k.h, k.memory, h[a].vals[i])
      IN  IF k.throws \/ v.throws
          THEN [h |-> h, memory |-> memory, throws |-> TRUE]
          ELSE CopyEntries(
                 [v.h EXCEPT ![c] =
                    IF kind = "array" THEN Push(@, v.v)
                    ELSE IF kind = "set" THEN SetAdd(@, v.v)
                    ELSE IF kind = "map" THEN Assign(@, k.v, v.v)
                    ELSE Assign(@, h[a].keys[i], v.v)],
                 v.memory, a, c, i + 1)

StructuredCopy(h, memory, v) ==
    IF ~IsRef(v)
    THEN [h |-> h, memory |-> memory, v |-> v, throws |-> v[1] = "symbol"]
    ELSE
      LET a == v[2]
          c == Len(h) + 1
      IN  IF h[a].kind = "function"
          THEN [h |-> h, memory |-> memory, v |-> v, throws |-> TRUE]
          ELSE IF a \in DOMAIN memory
          THEN [h |-> h, memory |-> memory, v |-> Ref(memory[a]), throws |-> FALSE]
          ELSE
            LET r == CopyEntries(Append(h, NewObject(h[a].kind, h[a].tick)),
                                 (a :> c) @@ memory, a, c, 1)
            IN  [h |-> r.h, memory |-> r.memory, v |-> Ref(c), throws |-> r.throws]

-----------------------------------------------------------------------------
(* The outcome of a call: the heap after it, the value returned, the       *)
(* message of the error raised ("" when it returns), and the strategy      *)
(* whose clone ran.  A call that raises leaves nothing reachable behind.   *)

Returned(h, v, s) == [h |-> h, v |-> v, err |-> "", used |-> s]
Raised(h, msg, s) == [h |-> h, v |-> Undefined, err |-> msg, used |-> s]

-----------------------------------------------------------------------------
(* JsonStrategy (strategies/jsonStrategy.js) *)

JsonCanHandle(h, obj) == ~JSONStringify(h, obj).throws

(* Variant of clone: return obj in place of JSON.parse(JSON.stringify(obj)) *)
JsonCloneByReference(h, obj) ==
    IF ~JsonCanHandle(h, obj)
    THEN Raised(h, "Object contains non-serializable values", "json")
    ELSE Returned(h, obj, "json")

JsonClone(h, obj) ==
    IF ~JsonCanHandle(h, obj)
    THEN Raised(h, "Object contains non-serializable values", "json")
    ELSE
      LET text == JSONStringify(h, obj)
      IN  IF text.undef
          THEN Raised(h, "SyntaxError", "json")
          ELSE LET r == JSONParse(h, text.doc)
               IN  Returned(r.h, r.v, "json")

-----------------------------------------------------------------------------
(* StructuredStrategy (strategies/structuredStrategy.js)                   *)
(* sc: typeof structuredClone !== 'undefined' in the host                  *)

StructuredCanHandle(sc) == sc

StructuredClone(h, obj, sc) ==
    IF ~StructuredCanHandle(sc)
    THEN Raised(h, "structuredClone not available in this environment", "structured")
    ELSE
      LET r == StructuredCopy(h, NoSeen, obj)
      IN  IF r.throws
          THEN Raised(h, "DataCloneError", "structured")
          ELSE Returned(r.h, r.v, "structured")

-----------------------------------------------------------------------------
(* deepClone (core/deepClone.js) *)

STRATEGIES == <<"structured", "json", "recursive">>

StrategyNames == {"auto", "json", "structured", "recursive"}

(* Strategy.canHandle as the selection loop calls it *)
CanHandle(s, h, obj, sc) ==
    CASE s = "structured" -> StructuredCanHandle(sc)
      [] s = "json" -> JsonCanHandle(h, obj)
      [] OTHER -> RecursiveCanHandle

RecursiveStrategyClone(h, obj) ==
    LET r == RecursiveClone(h, NoSeen, obj)
    IN  Returned(r.h, r.v, "recursive")

(* Strategy.clone(obj) *)
StrategyClone(s, h, obj, sc) ==
    CASE s = "json" -> JsonClone(h, obj)
      [] s = "structured" -> StructuredClone(h, obj, sc)
      [] OTHER -> RecursiveStrategyClone(h, obj)

(* the first strategy of STRATEGIES whose canHandle reports true *)
FirstEligible(h, obj, sc) ==
    STRATEGIES[CHOOSE i \in 1..Len(STRATEGIES) :
                 /\ CanHandle(STRATEGIES[i], h, obj, sc)
                 /\ \A j \in 1..(i - 1) : ~CanHandle(STRATEGIES[j], h, obj, sc)]

(* Variant of the auto branch: the loop returns the clone of the first     *)
(* strategy whose canHandle is true                                        *)
AutoCloneFirstEligible(h, obj, sc) ==
    StrategyClone(FirstEligible(h, obj, sc), h, obj, sc)

(* the auto branch: the loop over STRATEGIES evaluates canHandle of each   *)
(* strategy and continues either way; the clone is made by the statement   *)
(* after the loop                                                          *)
AutoClone(h, obj, sc) ==
    LET probes == [i \in 1..Len(STRATEGIES) |-> CanHandle(STRATEGIES[i], h, obj, sc)]
    IN  RecursiveStrategyClone(h, obj)

(* Variants of deepClone, each changed the way a slip in the code would     *)
(* change it.                                                              *)

(* currentDepth > maxDepth in the depth test *)
deepCloneStrictDepth(h, obj, o) ==
    IF o.currentDepth > o.maxDepth THEN Returned(h, obj, "none")
    ELSE IF isPrimitive(h, obj) THEN Returned(h, obj, "none")
    ELSE IF o.strategy # "auto"
    THEN IF o.strategy \in {"json", "structured", "recursive"}
         THEN StrategyClone(o.strategy, h, obj, o.sc)
         ELSE Raised(h, "Unknown strategy: " \o o.strategy, "none")
    ELSE AutoClone(h, obj, o.sc)

(* the switch has no default: an unknown name falls through to auto *)
deepCloneUnknownAsAuto(h, obj, o) ==
    IF o.currentDepth >= o.maxDepth THEN Returned(h, obj, "none")
    ELSE IF isPrimitive(h, obj) THEN Returned(h, obj, "none")
    ELSE IF o.strategy \in {"json", "structured", "recursive"}
    THEN StrategyClone(o.strategy, h, obj, o.sc)
    ELSE AutoClone(h, obj, o.sc)

(* a forced strategy that raises is caught and the recursive one used *)
deepCloneWithFallback(h, obj, o) ==
    IF o.currentDepth >= o.maxDepth THEN Returned(h, obj, "none")
    ELSE IF isPrimitive(h, obj) THEN Returned(h, obj, "none")
    ELSE IF o.strategy # "auto"
    THEN IF o.strategy \in {"json", "structured", "recursive"}
         THEN LET r == StrategyClone(o.strategy, h, obj, o.sc)
              IN  IF r.err # "" THEN RecursiveStrategyClone(h, obj) ELSE r
         ELSE Raised(h, "Unknown strategy: " \o o.strategy, "none")
    ELSE AutoClone(h, obj, o.sc)

deepClone(h, obj, o) ==
    IF o.currentDepth >= o.maxDepth THEN Returned(h, obj, "none")
    ELSE IF isPrimitive(h, obj) THEN Returned(h, obj, "none")
    ELSE IF o.strategy # "auto"
    THEN IF o.strategy \in {"json", "structured", "recursive"}
         THEN StrategyClone(o.strategy, h, obj, o.sc)
         ELSE Raised(h, "Unknown strategy: " \o o.strategy, "none")
    ELSE AutoClone(h, obj, o.sc)

-----------------------------------------------------------------------------
(* Property access on heap objects.  A property name is the string Str(n)  *)
(* (Str(0) is the empty string), the canonical numeric string Index(i)     *)
(* ("0", "1", ...), or the string "undefined" that the key undefined is    *)
(* converted to.  An array keeps its elements first in vals and its named  *)
(* properties, listed in keys, after them.  Maps and Sets are not among    *)
(* the values these operations are applied to.                             *)

Index(i) == <<"index", i>>
NameOfUndefined == <<"name", 0>>
EmptyString == Str(0)

IsIndex(key) == key[1] = "index"

(* arr.length *)
NumElements(o) == IF o.kind = "array" THEN Len(o.vals) - Len(o.keys) ELSE 0

(* [...arr] *)
Elements(o) == SubSeq(o.vals, 1, NumElements(o))

(* the place of o[key] in o.vals, 0 when o has no such own property *)
Slot(o, key) ==
    IF o.kind = "array" /\ IsIndex(key)
    THEN IF key[2] < NumElements(o) THEN key[2] + 1 ELSE 0
    ELSE IF InSeq(o.keys, key) THEN NumElements(o) + IndexOf(o.keys, key) ELSE 0

(* 'toString', a name every object inherits from Object.prototype, and    *)
(* the built-in function found under it                                    *)
NameOfToString == <<"name", 1>>
InheritedNames == {NameOfToString}
ObjectPrototypeToString == <<"builtin", 1>>

(* o.hasOwnProperty(key) *)
HasOwnProperty(h, a, key) == Slot(h[a], key) # 0

(* key in o: an own property or one found on the prototype chain *)
HasProperty(h, a, key) == HasOwnProperty(h, a, key) \/ key \in InheritedNames

(* o[key]: the own property, else the inherited one, else undefined *)
Get(h, a, key) ==
    LET s == Slot(h[a], key)
    IN  IF s # 0 THEN h[a].vals[s]
        ELSE IF key \in InheritedNames THEN ObjectPrototypeToString
        ELSE Undefined

InsertAt(s, i, x) == SubSeq(s, 1, i - 1) \o <<x>> \o SubSeq(s, i, Len(s))

(* o[key] = v: an existing property keeps its place; a new element extends *)
(* the array; a new integer-like name of an object goes before its string  *)
(* names, in ascending order; any other new name goes last                 *)
Set(o, key, v) ==
    LET s == Slot(o, key)
    IN  IF s # 0 THEN [o EXCEPT !.vals[s] = v]
        ELSE IF o.kind = "array" /\ IsIndex(key)
        THEN [o EXCEPT !.vals = InsertAt(@, NumElements(o) + 1, v)]
        ELSE IF IsIndex(key)
        THEN LET at == 1 + Cardinality({ i \in 1..Len(o.keys) :
                                           IsIndex(o.keys[i]) /\ o.keys[i][2] < key[2] })
             IN  [o EXCEPT !.keys = InsertAt(@, at, key), !.vals = InsertAt(@, at, v)]
        ELSE [o EXCEPT !.keys = Append(@, key), !.vals = Append(@, v)]

(* !v *)
Falsy(v) ==
    v \in {Undefined, Null, EmptyString, Num(0), <<"boolean", 0>>}

-----------------------------------------------------------------------------
(* Utils (core/utils.js)                                                   *)
(* A path is [isArray, parts]: an array of keys, or a string given by the  *)
(* pieces between its dots ('' is <<EmptyString>>, '.' two empty pieces).  *)

ArrayPath(parts) == [isArray |-> TRUE, parts |-> parts]
StringPath(parts) == [isArray |-> FALSE, parts |-> parts]

(* the letters of a path string, and the name Str(n) of a run of letters:  *)
(* 'a' is Str(1), 'b' is Str(2), 'aa' is Str(4), the empty run is Str(0)    *)
Letters == {"a", "b"}
Letter(c) == IF c = "a" THEN 1 ELSE 2
Dot == "."

RECURSIVE SplitFrom(_, _, _, _)
(* text.split('.') from position i on: piece is the name of the letters    *)
(* read since the last dot                                                 *)
SplitFrom(text, i, piece, pieces) ==
    IF i > Len(text) THEN Append(pieces, Str(piece))
    ELSE IF text[i] = Dot THEN SplitFrom(text, i + 1, 0, Append(pieces, Str(piece)))
    ELSE SplitFrom(text, i + 1, 3 * piece + Letter(text[i]), pieces)

(* the path given as the string text *)
PathOfString(text) == StringPath(SplitFrom(text, 1, 0, <<>>))

(* Variant: path.split('.') without the filter *)
parsePathKeepingEmpty(path) == path.parts

(* path.split('.').filter(Boolean), or the array itself *)
parsePath(path) ==
    IF path.isArray THEN path.parts
    ELSE SelectSeq(path.parts, LAMBDA s : ~Falsy(s))

RECURSIVE HasFrom(_, _, _, _)
HasFrom(h, current, keys, i) ==
    IF i > Len(keys) THEN TRUE
    ELSE IF Falsy(current) \/ TypeOf(h, current) # "object"
            \/ ~HasProperty(h, current[2], keys[i])
    THEN FALSE
    ELSE HasFrom(h, Get(h, current[2], keys[i]), keys, i + 1)

hasPath(h, obj, path) == HasFrom(h, obj, parsePath(path), 1)

RECURSIVE GetFrom(_, _, _, _, _)

(* Variant: the final test is current != null, so a resolved null gives    *)
(* the default as well                                                     *)
GetFromNullAsDefault(h, current, keys, i, defaultValue) ==
    IF i > Len(keys)
    THEN IF current \notin {Undefined, Null} THEN current ELSE defaultValue
    ELSE IF Falsy(current) \/ TypeOf(h, current) # "object"
    THEN defaultValue
    ELSE GetFrom(h, Get(h, current[2], keys[i]), keys, i + 1, defaultValue)

GetFrom(h, current, keys, i, defaultValue) ==
    IF i > Len(keys)
    THEN IF current # Undefined THEN current ELSE defaultValue
    ELSE IF Falsy(current) \/ TypeOf(h, current) # "object"
    THEN defaultValue
    ELSE GetFrom(h, Get(h, current[2], keys[i]), keys, i + 1, defaultValue)

getPath(h, obj, path, defaultValue) == GetFrom(h, obj, parsePath(path), 1, defaultValue)

(* the loop of setPath over keys[i .. length - 2]: a key that holds no     *)
(* object is given a new {}.  The module is strict-mode code: reading a    *)
(* property of null or undefined and assigning a property of any other     *)
(* primitive raise TypeError.                                              *)
RECURSIVE SetFrom(_, _, _, _)

(* Variant of the loop: if (!current[key]) only, so a key holding a truthy *)
(* atomic is descended into                                                *)
SetFromKeepsAtomics(h, current, keys, i) ==
    IF i >= Len(keys) THEN [h |-> h, current |-> current, throws |-> FALSE]
    ELSE IF ~IsRef(current) THEN [h |-> h, current |-> current, throws |-> TRUE]
    ELSE
      LET a == current[2]
          held == Get(h, a, keys[i])
          c == Len(h) + 1
      IN  IF Falsy(held)
          THEN SetFrom([Append(h, Empty("object")) EXCEPT ![a] = Set(@, keys[i], Ref(c))],
                       Ref(c), keys, i + 1)
          ELSE SetFrom(h, held, keys, i + 1)

(* Variant of the loop: current[key] = {} at every step, existing          *)
(* containers included                                                     *)
SetFromAlwaysCreates(h, current, keys, i) ==
    IF i >= Len(keys) THEN [h |-> h, current |-> current, throws |-> FALSE]
    ELSE IF ~IsRef(current) THEN [h |-> h, current |-> current, throws |-> TRUE]
    ELSE
      LET a == current[2]
          c == Len(h) + 1
      IN  SetFrom([Append(h, Empty("object")) EXCEPT ![a] = Set(@, keys[i], Ref(c))],
                  Ref(c), keys, i + 1)

SetFrom(h, current, keys, i) ==
    IF i >= Len(keys) THEN [h |-> h, current |-> current, throws |-> FALSE]
    ELSE IF ~IsRef(current) THEN [h |-> h, current |-> current, throws |-> TRUE]
    ELSE
      LET a == current[2]
          held == Get(h, a, keys[i])
          c == Len(h) + 1
      IN  IF Falsy(held) \/ TypeOf(h, held) # "object"
          THEN SetFrom([Append(h, Empty("object")) EXCEPT ![a] = Set(@, keys[i], Ref(c))],
                       Ref(c), keys, i + 1)
          ELSE SetFrom(h, held, keys, i + 1)

(* keys[keys.length - 1], undefined for an empty array, as a property name *)
LastKey(keys) == IF keys = <<>> THEN NameOfUndefined ELSE keys[Len(keys)]

setPath(h, obj, path, value) ==
    LET keys == parsePath(path)
        w == SetFrom(h, obj, keys, 1)
    IN  IF w.throws \/ ~IsRef(w.current)
        THEN Raised(w.h, "TypeError", "none")
        ELSE Returned([w.h EXCEPT ![w.current[2]] = Set(@, LastKey(keys), value)],
                      obj, "none")

-----------------------------------------------------------------------------
(* updates/updateNested.js *)

(* the host of the update operations has structuredClone (Node.js 17+) *)
HostStructuredClone == TRUE

(* deepClone(obj): no option given *)
DefaultOptions ==
    [strategy |-> "auto", maxDepth |-> Infinity, currentDepth |-> 0,
     sc |-> HostStructuredClone]

(* Variant of updateNested: the clone is made but the write goes to obj *)
updateNestedInPlace(h, obj, path, value, options) ==
    LET c == IF options.clone THEN deepClone(h, obj, DefaultOptions)
             ELSE Returned(h, obj, "none")
    IN  IF c.err # "" THEN c ELSE setPath(c.h, obj, path, value)

updateNested(h, obj, path, value, options) ==
    LET c == IF options.clone THEN deepClone(h, obj, DefaultOptions)
             ELSE Returned(h, obj, "none")
    IN  IF c.err # "" THEN c ELSE setPath(c.h, c.v, path, value)

-----------------------------------------------------------------------------
(* updates/updateMultiple.js                                               *)
(* updates is an object literal whose keys are path strings: the sequence  *)
(* of its <<path, value>> entries as written                               *)

(* the key of the entry is an integer-like string *)
IntegerKey(e) == Len(e[1].parts) = 1 /\ IsIndex(e[1].parts[1])

(* the entries with integer-like keys, in ascending order of the key *)
RECURSIVE Ascending(_)
Ascending(S) ==
    IF S = {} THEN <<>>
    ELSE LET m == CHOOSE e \in S : \A f \in S : e[1].parts[1][2] <= f[1].parts[1][2]
         IN  <<m>> \o Ascending(S \ {m})

(* Object.entries(updates): integer-like keys first, in ascending order,   *)
(* then the other keys in the order they were written                      *)
ObjectEntries(updates) ==
    Ascending({ updates[i] : i \in { j \in 1..Len(updates) : IntegerKey(updates[j]) } })
    \o SelectSeq(updates, LAMBDA e : ~IntegerKey(e))

(* the loop: setPath(result, path, value) for each entry; an error ends it *)
RECURSIVE SetEach(_, _, _, _)
SetEach(h, res, entries, i) ==
    IF i > Len(entries) THEN Returned(h, res, "none")
    ELSE LET w == setPath(h, res, entries[i][1], entries[i][2])
         IN  IF w.err # "" THEN w ELSE SetEach(w.h, res, entries, i + 1)

(* Variant of updateMultiple: every write goes to a clone of its own and   *)
(* the last clone is returned                                              *)
RECURSIVE SetEachOnNewClone(_, _, _, _)
SetEachOnNewClone(h, obj, entries, i) ==
    IF i > Len(entries) THEN deepClone(h, obj, DefaultOptions)
    ELSE LET c == deepClone(h, obj, DefaultOptions)
             w == setPath(c.h, c.v, entries[i][1], entries[i][2])
         IN  IF w.err # "" \/ i = Len(entries) THEN w
             ELSE SetEachOnNewClone(w.h, obj, entries, i + 1)

updateMultipleCloningEachTime(h, obj, updates, options) ==
    IF options.clone
    THEN SetEachOnNewClone(h, obj, ObjectEntries(updates), 1)
    ELSE SetEach(h, obj, ObjectEntries(updates), 1)

updateMultiple(h, obj, updates, options) ==
    LET c == IF options.clone THEN deepClone(h, obj, DefaultOptions)
             ELSE Returned(h, obj, "none")
    IN  IF c.err # "" THEN c ELSE SetEach(c.h, c.v, ObjectEntries(updates), 1)

-----------------------------------------------------------------------------
(* updates/deepMerge.js *)

(* the names for (const key in o) yields that o.hasOwnProperty: the        *)
(* indices of an array, then the named properties in their order           *)
OwnKeys(o) ==
    IF o.kind = "array"
    THEN [i \in 1..NumElements(o) |-> Index(i - 1)] \o o.keys
    ELSE o.keys

(* Array.isArray(v) *)
IsArrayValue(h, v) == IsRef(v) /\ h[v[2]].kind = "array"

(* v && typeof v === 'object' && !(v instanceof Date) && !(v instanceof RegExp) *)
IsMergeable(h, v) ==
    /\ ~Falsy(v)
    /\ TypeOf(h, v) = "object"
    /\ h[v[2]].kind \notin {"date", "regexp"}

(* the outcome of mergeRecursive: the heap and the error raised, if any *)
Merged(h) == [h |-> h, err |-> ""]
MergeFailed(h, msg) == [h |-> h, err |-> msg]

RECURSIVE mergeRecursive(_, _, _, _, _)
RECURSIVE MergeKeys(_, _, _, _, _, _, _)

(* Variant of the loop body: a nested object of the source replaces the    *)
(* destination's value in place of being merged into it                    *)
MergeKeysReplacing(h, dest, src, keys, i, stack, arrayStrategy) ==
    IF i > Len(keys) THEN Merged(h)
    ELSE IF ~IsRef(dest) THEN MergeFailed(h, "TypeError")
    ELSE
      LET key == keys[i]
          d == dest[2]
          sv == Get(h, src[2], key)
          dv == Get(h, d, key)
          c == Len(h) + 1
      IN  IF IsArrayValue(h, sv)
          THEN IF arrayStrategy = "merge" /\ IsArrayValue(h, dv)
               THEN MergeKeys(
                      [Append(h, [Empty("array") EXCEPT
                                    !.vals = Elements(h[dv[2]]) \o Elements(h[sv[2]])])
                         EXCEPT ![d] = Set(@, key, Ref(c))],
                      dest, src, keys, i + 1, stack, arrayStrategy)
               ELSE LET r == deepClone(h, sv, DefaultOptions)
                    IN  MergeKeys([r.h EXCEPT ![d] = Set(@, key, r.v)],
                                  dest, src, keys, i + 1, stack, arrayStrategy)
          ELSE IF IsMergeable(h, sv)
          THEN LET r == mergeRecursive([Append(h, Empty("object")) EXCEPT
                                          ![d] = Set(@, key, Ref(c))],
                                       Ref(c), sv, stack, arrayStrategy)
               IN  IF r.err # "" THEN r
                   ELSE MergeKeys(r.h, dest, src, keys, i + 1, stack, arrayStrategy)
          ELSE MergeKeys([h EXCEPT ![d] = Set(@, key, sv)],
                         dest, src, keys, i + 1, stack, arrayStrategy)

(* the body of the loop for keys[i ..] of src.  Strict-mode code: a read   *)
(* or an assignment of a property of a dest that is no object raises       *)
(* TypeError.                                                              *)
MergeKeys(h, dest, src, keys, i, stack, arrayStrategy) ==
    IF i > Len(keys) THEN Merged(h)
    ELSE IF ~IsRef(dest) THEN MergeFailed(h, "TypeError")
    ELSE
      LET key == keys[i]
          d == dest[2]
          sv == Get(h, src[2], key)
          dv == Get(h, d, key)
          c == Len(h) + 1
      IN  IF IsArrayValue(h, sv)
          THEN IF arrayStrategy = "merge" /\ IsArrayValue(h, dv)
               THEN MergeKeys(
                      [Append(h, [Empty("array") EXCEPT
                                    !.vals = Elements(h[dv[2]]) \o Elements(h[sv[2]])])
                         EXCEPT ![d] = Set(@, key, Ref(c))],
                      dest, src, keys, i + 1, stack, arrayStrategy)
               ELSE LET r == deepClone(h, sv, DefaultOptions)
                    IN  MergeKeys([r.h EXCEPT ![d] = Set(@, key, r.v)],
                                  dest, src, keys, i + 1, stack, arrayStrategy)
          ELSE IF IsMergeable(h, sv)
          THEN LET r == IF Falsy(dv) \/ TypeOf(h, dv) # "object"
                        THEN mergeRecursive([Append(h, Empty("object")) EXCEPT
                                               ![d] = Set(@, key, Ref(c))],
                                            Ref(c), sv, stack, arrayStrategy)
                        ELSE mergeRecursive(h, dv, sv, stack, arrayStrategy)
               IN  IF r.err # "" THEN r
                   ELSE MergeKeys(r.h, dest, src, keys, i + 1, stack, arrayStrategy)
          ELSE MergeKeys([h EXCEPT ![d] = Set(@, key, sv)],
                         dest, src, keys, i + 1, stack, arrayStrategy)

(* mergeRecursive(dest, src); stack holds the source objects of the calls  *)
(* in progress.  A source object met again below itself is merged again    *)
(* at every level: the recursion has no end and the host raises            *)
(* RangeError (maximum call stack size exceeded).                          *)
mergeRecursive(h, dest, src, stack, arrayStrategy) ==
    IF ~IsRef(src) THEN Merged(h)
    ELSE IF src[2] \in stack THEN MergeFailed(h, "RangeError")
    ELSE MergeKeys(h, dest, src, OwnKeys(h[src[2]]), 1, stack \cup {src[2]}, arrayStrategy)

deepMerge(h, target, source, options) ==
    LET c == deepClone(h, target, DefaultOptions)
        r == mergeRecursive(c.h, c.v, source, {}, options.arrayStrategy)
    IN  IF c.err # "" THEN c
        ELSE IF r.err # "" THEN Raised(r.h, r.err, c.used)
        ELSE Returned(r.h, c.v, c.used)

-----------------------------------------------------------------------------
(* core/types.js: Types.isCircular *)

Boolean(b) == <<"boolean", IF b THEN 1 ELSE 0>>

(* the names for (let key in obj) yields that obj.hasOwnProperty: a Map or *)
(* a Set has no enumerable own property, its entries are not properties    *)
ForInKeys(o) == IF o.kind \in {"map", "set"} THEN <<>> ELSE OwnKeys(o)

RECURSIVE isCircularFrom(_, _, _)
RECURSIVE CircularAmong(_, _, _, _, _)

(* the loop over the properties keys[i ..] of the object a; seen is the    *)
(* one WeakSet handed down to every recursive call                         *)
CircularAmong(h, a, keys, i, seen) ==
    IF i > Len(keys) THEN [found |-> FALSE, seen |-> seen]
    ELSE LET r == isCircularFrom(h, Get(h, a, keys[i]), seen)
         IN  IF r.found THEN r
             ELSE CircularAmong(h, a, keys, i + 1, r.seen)

(* Types.isCircular(obj, seen): what it returns and the set it leaves *)
isCircularFrom(h, obj, seen) ==
    IF ~Falsy(obj) /\ TypeOf(h, obj) = "object"
    THEN IF obj[2] \in seen
         THEN [found |-> TRUE, seen |-> seen]
         ELSE CircularAmong(h, obj[2], ForInKeys(h[obj[2]]), 1, seen \cup {obj[2]})
    ELSE [found |-> FALSE, seen |-> seen]

(* Types.isCircular(obj) *)
isCircular(h, obj) == isCircularFrom(h, obj, {}).found

-----------------------------------------------------------------------------
(* Construction of the source graph: the caller's own statements, building *)
(* the value later handed to deepClone.  Nodes are filled in address order *)
(* (cur), so every rooted graph is built in exactly one way.               *)

(* no operation of the library has been called yet *)
NoCall == [op |-> "none"]

NoOpts == [strategy |-> "none", maxDepth |-> 0, currentDepth |-> 0, sc |-> FALSE]

NumEntries(h) ==
    LET RECURSIVE Sum(_)
        Sum(i) == IF i = 0 THEN 0 ELSE Len(h[i].vals) + Sum(i - 1)
    IN  Sum(Len(h))

(* obj[key] = v, arr.push(v), map.set(key, v), set.add(v) on node a *)
Put(h, a, key, v) ==
    LET o == h[a]
    IN  [h EXCEPT ![a] =
            IF o.kind \in {"object", "map"}
            THEN [o EXCEPT !.keys = Append(@, key), !.vals = Append(@, v)]
            ELSE [o EXCEPT !.vals = Append(@, v)]]

CanPut(h, a, key, v) ==
    /\ h[a].kind \in ContainerKinds
    /\ h[a].kind \in {"object", "map"} => ~InSeq(h[a].keys, key)
    /\ h[a].kind = "set" => ~InSeq(h[a].vals, v)

NextKey(h, a) == Str(Len(h[a].vals) + 1)

(* const obj = { a: { b: { c: 'value' } } }, the three-level literal of the *)
(* depth tests                                                             *)
Nested3 ==
    << [kind |-> "object", keys |-> <<Str(1)>>, vals |-> <<Ref(2)>>, tick |-> 0],
       [kind |-> "object", keys |-> <<Str(1)>>, vals |-> <<Ref(3)>>, tick |-> 0],
       [kind |-> "object", keys |-> <<Str(1)>>, vals |-> <<Str(1)>>, tick |-> 0] >>

(* the value handed to the call: an atomic, a new empty object of any      *)
(* kind (filled in by the actions below), or the three-level literal       *)
Init ==
    /\ \/ /\ heap = <<>>
          /\ root \in Atomics
       \/ /\ \E k \in Kinds : heap = <<Fresh(k, 1)>>
          /\ root = Ref(1)
       \/ /\ heap = Nested3
          /\ root = Ref(1)
    /\ cur = 1
    /\ phase = "build"
    /\ pre = <<>>
    /\ opts = NoOpts
    /\ result = Undefined
    /\ err = ""
    /\ used = "none"
    /\ call = NoCall
    /\ outs = <<>>

Building ==
    /\ phase = "build"
    /\ cur <= Len(heap)
    /\ NumEntries(heap) < MaxEntries

(* cur.key = new K() *)
AddNew(kind) ==
    /\ Building
    /\ Len(heap) < MaxNodes
    /\ LET a == Len(heap) + 1
       IN  /\ CanPut(heap, cur, NextKey(heap, cur), Ref(a))
           /\ heap' = Put(Append(heap, Fresh(kind, a)), cur, NextKey(heap, cur), Ref(a))
    /\ UNCHANGED <<root, cur, phase, pre, opts, result, err, used, call, outs>>

(* cur.key = an object that already exists (sharing, cycles) *)
AddRef(a) ==
    /\ Building
    /\ a \in 1..Len(heap)
    /\ CanPut(heap, cur, NextKey(heap, cur), Ref(a))
    /\ heap' = Put(heap, cur, NextKey(heap, cur), Ref(a))
    /\ UNCHANGED <<root, cur, phase, pre, opts, result, err, used, call, outs>>

(* cur.key = atomic *)
AddAtomic(v) ==
    /\ Building
    /\ CanPut(heap, cur, NextKey(heap, cur), v)
    /\ heap' = Put(heap, cur, NextKey(heap, cur), v)
    /\ UNCHANGED <<root, cur, phase, pre, opts, result, err, used, call, outs>>

(* map.set(new Object(), new K()): a Map entry keyed by an object *)
AddKeyed(kind) ==
    /\ Building
    /\ heap[cur].kind = "map"
    /\ Len(heap) + 1 < MaxNodes
    /\ LET k == Len(heap) + 1
           a == Len(heap) + 2
       IN  heap' = Put(Append(Append(heap, Empty("object")), Fresh(kind, a)),
                       cur, Ref(k), Ref(a))
    /\ UNCHANGED <<root, cur, phase, pre, opts, result, err, used, call, outs>>

(* the caller goes on to fill the next object *)
Advance ==
    /\ phase = "build"
    /\ cur < Len(heap)
    /\ cur' = cur + 1
    /\ UNCHANGED <<heap, root, phase, pre, opts, result, err, used, call, outs>>

(* the options of the call: a strategy name (one of them unknown), maxDepth *)
(* (Infinity by default), currentDepth, and the host's structuredClone    *)
MaxDepths == {0, 1, 2, Infinity}
CurrentDepths == {0, 1}

Options ==
    [strategy : StrategyNames \cup {"bogus"},
     maxDepth : MaxDepths,
     currentDepth : CurrentDepths,
     sc : BOOLEAN]

(* result = deepClone(root, o) *)
CallDeepClone(o) ==
    /\ phase = "build"
    /\ cur >= Len(heap)
    /\ LET r == deepClone(heap, root, o)
       IN  /\ heap' = r.h
           /\ result' = r.v
           /\ err' = r.err
           /\ used' = r.used
    /\ pre' = heap
    /\ opts' = o
    /\ phase' = "done"
    /\ cur' = 0
    /\ call' = [op |-> "deepClone"]
    /\ UNCHANGED <<root, outs>>

(* the strategy comparison of the test suite: JsonStrategy.clone(root),    *)
(* RecursiveStrategy.clone(root) and, if StructuredStrategy.canHandle(),   *)
(* StructuredStrategy.clone(root), one after the other; the first clone    *)
(* that raises ends the comparison                                         *)
CompareStrategies(sc) ==
    /\ phase = "build"
    /\ cur >= Len(heap)
    /\ LET j == JsonClone(heap, root)
           r == RecursiveStrategyClone(j.h, root)
           s == StructuredClone(r.h, root, sc)
       IN  IF j.err # ""
           THEN heap' = j.h /\ err' = j.err /\ outs' = <<>>
           ELSE IF ~StructuredCanHandle(sc)
           THEN heap' = r.h /\ err' = "" /\ outs' = <<j.v, r.v>>
           ELSE IF s.err # ""
           THEN heap' = s.h /\ err' = s.err /\ outs' = <<j.v, r.v>>
           ELSE heap' = s.h /\ err' = "" /\ outs' = <<j.v, r.v, s.v>>
    /\ pre' = heap
    /\ opts' = [NoOpts EXCEPT !.sc = sc]
    /\ phase' = "compared"
    /\ cur' = 0
    /\ call' = [op |-> "compare"]
    /\ UNCHANGED <<root, result, used>>

Next ==
    \/ \E o \in Options : CallDeepClone(o)
    \/ \E sc \in BOOLEAN : CompareStrategies(sc)
    \/ \E k \in Kinds : AddNew(k)
    \/ \E a \in 1..MaxNodes + 1 : AddRef(a)
    \/ \E v \in InnerAtomics : AddAtomic(v)
    \/ \E k \in Kinds : AddKeyed(k)
    \/ Advance

Spec == Init /\ [][Next]_vars

-----------------------------------------------------------------------------
(* Uses of the update operations: the caller builds an object of plain     *)
(* objects, arrays, Dates and functions (or takes an atomic value), then   *)
(* calls updateNested on it.                                               *)

UpdateKinds == {"object", "array", "date", "function"}

InitUpdate ==
    /\ \/ /\ heap = <<>>
          /\ root \in Atomics
       \/ /\ heap = <<Empty("object")>>
          /\ root = Ref(1)
       \/ /\ heap = Nested3
          /\ root = Ref(1)
    /\ cur = 1
    /\ phase = "build"
    /\ pre = <<>>
    /\ opts = NoOpts
    /\ result = Undefined
    /\ err = ""
    /\ used = "none"
    /\ call = NoCall
    /\ outs = <<>>

(* path strings ('', '.', '...', 'a', 'b', '0', '.a', 'a.b', 'a.a', 'b.a',  *)
(* 'a.0', '0.a', 'a..b' and 'a.a.a', the depth of the test literal) and    *)
(* arrays of keys                                                          *)
Paths ==
    { StringPath(p) : p \in
        { <<EmptyString>>, <<EmptyString, EmptyString>>,
          <<EmptyString, EmptyString, EmptyString, EmptyString>>,
          <<Str(1)>>, <<Str(2)>>, <<Index(0)>>, <<EmptyString, Str(1)>>,
          <<Str(1), Str(2)>>, <<Str(1), Str(1)>>, <<Str(2), Str(1)>>,
          <<Str(1), Index(0)>>, <<Index(0), Str(1)>>,
          <<Str(1), EmptyString, Str(2)>>, <<Str(1), Str(1), Str(1)>> } }
    \cup { ArrayPath(p) : p \in { <<>>, <<Str(1)>>, <<Str(1), Str(2)>>,
                                  <<Str(1), EmptyString>>, <<Index(0)>> } }

(* the atomic values written *)
UpdateValues == {Undefined, Num(2)}

(* result = updateNested(root, path, value, {clone}) where value is an     *)
(* atomic or an object of the heap                                         *)
CallUpdateNested(path, value, clone) ==
    /\ phase = "build"
    /\ cur >= Len(heap)
    /\ IsRef(value) => value[2] \in 1..Len(heap)
    /\ LET r == updateNested(heap, root, path, value, [clone |-> clone])
       IN  /\ heap' = r.h
           /\ result' = r.v
           /\ err' = r.err
           /\ used' = r.used
    /\ pre' = heap
    /\ opts' = DefaultOptions
    /\ phase' = "updated"
    /\ cur' = 0
    /\ call' = [op |-> "updateNested", path |-> path, value |-> value, clone |-> clone]
    /\ UNCHANGED <<root, outs>>

(* the same call with a new {} as the value *)
CallUpdateNestedWithNew(path, clone) ==
    /\ phase = "build"
    /\ cur >= Len(heap)
    /\ LET value == Ref(Len(heap) + 1)
           h == Append(heap, Empty("object"))
           r == updateNested(h, root, path, value, [clone |-> clone])
       IN  /\ heap' = r.h
           /\ result' = r.v
           /\ err' = r.err
           /\ used' = r.used
           /\ pre' = h
           /\ call' = [op |-> "updateNested", path |-> path, value |-> value, clone |-> clone]
    /\ opts' = DefaultOptions
    /\ phase' = "updated"
    /\ cur' = 0
    /\ UNCHANGED <<root, outs>>

(* the keys of the updates literals: 'a', 'a.b', 'b', '0' and '0.a' *)
UpdateKeys ==
    { StringPath(p) : p \in { <<Str(1)>>, <<Str(1), Str(2)>>, <<Str(2)>>,
                               <<Index(0)>>, <<Index(0), Str(1)>> } }

(* the updates literals: up to two entries with different keys, whose      *)
(* values are numbers or the object x                                      *)
UpdatesLiterals(x) ==
    LET Entries == UpdateKeys \X {Num(2), Num(3), x}
    IN  { <<>> } \cup { <<e>> : e \in Entries }
        \cup { u \in { <<e, f>> : e \in Entries, f \in Entries } : u[1][1] # u[2][1] }

(* const x = {}; result = updateMultiple(root, updates, {clone}) *)
CallUpdateMultiple(updates, clone) ==
    /\ phase = "build"
    /\ cur >= Len(heap)
    /\ LET h == Append(heap, Empty("object"))
           r == updateMultiple(h, root, updates, [clone |-> clone])
       IN  /\ heap' = r.h
           /\ result' = r.v
           /\ err' = r.err
           /\ used' = r.used
           /\ pre' = h
    /\ opts' = DefaultOptions
    /\ phase' = "updated"
    /\ cur' = 0
    /\ call' = [op |-> "updateMultiple", updates |-> updates, clone |-> clone]
    /\ UNCHANGED <<root, outs>>

NextUpdate ==
    \/ /\ phase = "build"
       /\ \E path \in Paths, clone \in BOOLEAN :
             \/ \E value \in UpdateValues \cup { Ref(a) : a \in 1..Len(heap) } :
                   CallUpdateNested(path, value, clone)
             \/ CallUpdateNestedWithNew(path, clone)
    \/ \E k \in UpdateKinds : AddNew(k)
    \/ \E a \in 1..MaxNodes + 1 : AddRef(a)
    \/ \E v \in InnerAtomics : AddAtomic(v)
    \/ Advance

SpecUpdate == InitUpdate /\ [][NextUpdate]_vars

(* the same objects handed to updateMultiple *)
NextBatch ==
    \/ /\ phase = "build"
       /\ \E updates \in UpdatesLiterals(Ref(Len(heap) + 1)), clone \in BOOLEAN :
             CallUpdateMultiple(updates, clone)
    \/ \E k \in UpdateKinds : AddNew(k)
    \/ \E a \in 1..MaxNodes + 1 : AddRef(a)
    \/ \E v \in InnerAtomics : AddAtomic(v)
    \/ Advance

SpecBatch == InitUpdate /\ [][NextBatch]_vars

-----------------------------------------------------------------------------
(* Uses of deepMerge: the caller builds a target (node 1, or an atomic)    *)
(* and further objects, then merges one of them, or an atomic, into the    *)
(* target.                                                                 *)

(* target = {a: 1, b: {c: 2}}, source = {b: {d: 3}, e: 4} *)
MergeDeeplyLiterals ==
    << [kind |-> "object", keys |-> <<Str(1), Str(2)>>, vals |-> <<Num(1), Ref(3)>>, tick |-> 0],
       [kind |-> "object", keys |-> <<Str(2), Str(5)>>, vals |-> <<Ref(4), Num(4)>>, tick |-> 0],
       [kind |-> "object", keys |-> <<Str(3)>>, vals |-> <<Num(2)>>, tick |-> 0],
       [kind |-> "object", keys |-> <<Str(4)>>, vals |-> <<Num(3)>>, tick |-> 0] >>

(* target = {items: [1, 2]}, source = {items: [3, 4]} *)
ArrayMergeLiterals ==
    << [kind |-> "object", keys |-> <<Str(1)>>, vals |-> <<Ref(3)>>, tick |-> 0],
       [kind |-> "object", keys |-> <<Str(1)>>, vals |-> <<Ref(4)>>, tick |-> 0],
       [kind |-> "array", keys |-> <<>>, vals |-> <<Num(1), Num(2)>>, tick |-> 0],
       [kind |-> "array", keys |-> <<>>, vals |-> <<Num(3), Num(4)>>, tick |-> 0] >>

(* target = {}; target.self = target; source = {self: {x: 1}} *)
SelfReferenceLiterals ==
    << [kind |-> "object", keys |-> <<Str(1)>>, vals |-> <<Ref(1)>>, tick |-> 0],
       [kind |-> "object", keys |-> <<Str(1)>>, vals |-> <<Ref(3)>>, tick |-> 0],
       [kind |-> "object", keys |-> <<Str(2)>>, vals |-> <<Num(1)>>, tick |-> 0] >>

(* target = {}; target.self = target;                                      *)
(* source = {at: new Date(3), self: {at: {x: 1}}}                          *)
SelfReferenceAndDateLiterals ==
    << [kind |-> "object", keys |-> <<Str(1)>>, vals |-> <<Ref(1)>>, tick |-> 0],
       [kind |-> "object", keys |-> <<Str(2), Str(1)>>, vals |-> <<Ref(3), Ref(4)>>, tick |-> 0],
       [kind |-> "date", keys |-> <<>>, vals |-> <<>>, tick |-> 3],
       [kind |-> "object", keys |-> <<Str(2)>>, vals |-> <<Ref(5)>>, tick |-> 0],
       [kind |-> "object", keys |-> <<Str(3)>>, vals |-> <<Num(1)>>, tick |-> 0] >>

(* target = {items: [1]}, source = {items: [{x: 1}]} *)
AppendLiterals ==
    << [kind |-> "object", keys |-> <<Str(1)>>, vals |-> <<Ref(3)>>, tick |-> 0],
       [kind |-> "object", keys |-> <<Str(1)>>, vals |-> <<Ref(4)>>, tick |-> 0],
       [kind |-> "array", keys |-> <<>>, vals |-> <<Num(1)>>, tick |-> 0],
       [kind |-> "array", keys |-> <<>>, vals |-> <<Ref(5)>>, tick |-> 0],
       [kind |-> "object", keys |-> <<Str(2)>>, vals |-> <<Num(1)>>, tick |-> 0] >>

InitMerge ==
    /\ \/ /\ heap = <<Empty("object")>>
          /\ root \in Atomics
       \/ /\ heap \in { <<Empty("object"), Empty("object")>>, MergeDeeplyLiterals,
                         ArrayMergeLiterals, AppendLiterals, SelfReferenceLiterals,
                         SelfReferenceAndDateLiterals }
          /\ root = Ref(1)
    /\ cur = 1
    /\ phase = "build"
    /\ pre = <<>>
    /\ opts = NoOpts
    /\ result = Undefined
    /\ err = ""
    /\ used = "none"
    /\ call = NoCall
    /\ outs = <<>>

(* the atomic values placed in the objects merged *)
MergeAtomics == {Num(1), Null, Undefined}

(* the sources that are no object *)
AtomicSources == {Null, Undefined, Num(1)}

ArrayStrategies == {"replace", "merge"}

(* result = deepMerge(root, source, {arrayStrategy}) *)
CallDeepMerge(source, arrayStrategy) ==
    /\ phase = "build"
    /\ cur >= Len(heap)
    /\ IsRef(source) => source[2] \in 1..Len(heap)
    /\ LET r == deepMerge(heap, root, source, [arrayStrategy |-> arrayStrategy])
       IN  /\ heap' = r.h
           /\ result' = r.v
           /\ err' = r.err
           /\ used' = r.used
    /\ pre' = heap
    /\ opts' = DefaultOptions
    /\ phase' = "merged"
    /\ cur' = 0
    /\ call' = [op |-> "deepMerge", source |-> source, arrayStrategy |-> arrayStrategy]
    /\ UNCHANGED <<root, outs>>

NextMerge ==
    \/ /\ phase = "build"
       /\ \E source \in AtomicSources \cup { Ref(a) : a \in 1..Len(heap) },
             arrayStrategy \in ArrayStrategies :
             CallDeepMerge(source, arrayStrategy)
    \/ \E k \in UpdateKinds : AddNew(k)
    \/ \E a \in 1..MaxNodes + 1 : AddRef(a)
    \/ \E v \in MergeAtomics : AddAtomic(v)
    \/ Advance

SpecMerge == InitMerge /\ [][NextMerge]_vars

-----------------------------------------------------------------------------
(* Uses of Types.isCircular: the caller builds a value as for deepClone,   *)
(* then asks whether it is circular.                                       *)

(* result = Types.isCircular(root) *)
CallIsCircular ==
    /\ phase = "build"
    /\ cur >= Len(heap)
    /\ result' = Boolean(isCircular(heap, root))
    /\ pre' = heap
    /\ phase' = "checked"
    /\ cur' = 0
    /\ call' = [op |-> "isCircular"]
    /\ UNCHANGED <<heap, root, opts, err, used, outs>>

NextTypes ==
    \/ CallIsCircular
    \/ \E k \in Kinds : AddNew(k)
    \/ \E a \in 1..MaxNodes + 1 : AddRef(a)
    \/ \E v \in InnerAtomics : AddAtomic(v)
    \/ \E k \in Kinds : AddKeyed(k)
    \/ Advance

SpecTypes == Init /\ [][NextTypes]_vars

-----------------------------------------------------------------------------
(* Uses of the read operations of Utils: the caller builds an object (or   *)
(* takes an atomic value), then asks for a path of it.                     *)

(* the paths read: those written by the updates, and paths through a name  *)
(* that is inherited                                                       *)
ReadPaths ==
    Paths \cup { StringPath(p) : p \in { <<NameOfToString>>, <<Str(1), NameOfToString>>,
                                         <<NameOfToString, Str(1)>> } }

(* the fallback values handed to getPath *)
DefaultValues == {Undefined, Num(2)}

(* result = Utils.hasPath(root, path) *)
CallHasPath(path) ==
    /\ phase = "build"
    /\ cur >= Len(heap)
    /\ result' = Boolean(hasPath(heap, root, path))
    /\ pre' = heap
    /\ phase' = "read"
    /\ cur' = 0
    /\ call' = [op |-> "hasPath", path |-> path]
    /\ UNCHANGED <<heap, root, opts, err, used, outs>>

(* result = Utils.getPath(root, path, defaultValue) *)
CallGetPath(path, defaultValue) ==
    /\ phase = "build"
    /\ cur >= Len(heap)
    /\ result' = getPath(heap, root, path, defaultValue)
    /\ pre' = heap
    /\ phase' = "read"
    /\ cur' = 0
    /\ call' = [op |-> "getPath", path |-> path, defaultValue |-> defaultValue]
    /\ UNCHANGED <<heap, root, opts, err, used, outs>>

NextPath ==
    \/ /\ phase = "build"
       /\ \E path \in ReadPaths : CallHasPath(path)
    \/ /\ phase = "build"
       /\ \E path \in ReadPaths, defaultValue \in DefaultValues :
             CallGetPath(path, defaultValue)
    \/ \E k \in UpdateKinds : AddNew(k)
    \/ \E a \in 1..MaxNodes + 1 : AddRef(a)
    \/ \E v \in MergeAtomics : AddAtomic(v)
    \/ Advance

SpecPath == InitUpdate /\ [][NextPath]_vars

-----------------------------------------------------------------------------
(* Uses of Utils.parsePath: a path string of letters and dots, or an array *)
(* of keys, is parsed, and the outcome is parsed again.                    *)

RECURSIVE Texts(_)
(* the strings of n characters *)
Texts(n) ==
    IF n = 0 THEN { <<>> }
    ELSE { Append(t, c) : t \in Texts(n - 1), c \in Letters \cup {Dot} }

PathTexts == UNION { Texts(n) : n \in 0..MaxChars }

PathArrays ==
    { ArrayPath(p) : p \in { <<>>, <<Str(1)>>, <<Str(1), Str(2)>>, <<Str(1), EmptyString>>,
                             <<EmptyString>>, <<Index(0)>> } }

InitParse ==
    /\ heap = <<>>
    /\ root = Undefined
    /\ cur = 0
    /\ phase = "build"
    /\ pre = <<>>
    /\ opts = NoOpts
    /\ result = Undefined
    /\ err = ""
    /\ used = "none"
    /\ \/ \E text \in PathTexts :
             call = [op |-> "none", text |-> text, path |-> PathOfString(text)]
       \/ \E path \in PathArrays :
             call = [op |-> "none", text |-> <<>>, path |-> path]
    /\ outs = <<>>

(* keys = Utils.parsePath(path) *)
CallParsePath ==
    /\ phase = "build"
    /\ outs' = <<parsePath(call.path)>>
    /\ call' = [call EXCEPT !.op = "parsePath"]
    /\ phase' = "parsed"
    /\ UNCHANGED <<heap, root, cur, pre, opts, result, err, used>>

(* Utils.parsePath(keys) *)
CallParsePathAgain ==
    /\ phase = "parsed"
    /\ outs' = Append(outs, parsePath(ArrayPath(outs[1])))
    /\ phase' = "reparsed"
    /\ UNCHANGED <<heap, root, cur, pre, opts, result, err, used, call>>

NextParse == CallParsePath \/ CallParsePathAgain

SpecParse == InitParse /\ [][NextParse]_vars

-----------------------------------------------------------------------------
(* Vocabulary of the properties: the object graph as the caller sees it    *)

(* what an object holds, in order: property values, elements, and for a    *)
(* Map its keys and values interleaved                                     *)
Children(h, a) ==
    IF h[a].kind = "map"
    THEN [i \in 1..2 * Len(h[a].vals) |->
            IF i % 2 = 1 THEN h[a].keys[(i + 1) \div 2] ELSE h[a].vals[i \div 2]]
    ELSE h[a].vals

RefsIn(s) == { s[i][2] : i \in { j \in 1..Len(s) : IsRef(s[j]) } }

RECURSIVE ReachFrom(_, _)
ReachFrom(h, S) ==
    LET T == S \cup UNION { RefsIn(Children(h, a)) : a \in S }
    IN  IF T = S THEN S ELSE ReachFrom(h, T)

(* the objects reachable from the value v *)
Reach(h, v) == IF IsRef(v) THEN ReachFrom(h, {v[2]}) ELSE {}

(* reachability through properties of plain objects and array elements     *)
PlainChildren(h, a) == IF h[a].kind \in {"object", "array"} THEN h[a].vals ELSE <<>>

RECURSIVE PlainReachFrom(_, _)
PlainReachFrom(h, S) ==
    LET T == S \cup UNION { RefsIn(PlainChildren(h, a)) : a \in S }
    IN  IF T = S THEN S ELSE PlainReachFrom(h, T)

(* v contains a reference cycle through mappings and sequences *)
PlainCycle(h, v) ==
    /\ IsRef(v)
    /\ \E a \in PlainReachFrom(h, {v[2]}) :
          a \in PlainReachFrom(h, RefsIn(PlainChildren(h, a)))

(* v contains a reference cycle *)
HasCycle(h, v) ==
    /\ IsRef(v)
    /\ \E a \in Reach(h, v) : a \in ReachFrom(h, RefsIn(Children(h, a)))

(* the places <<a, i>> of the objects S that hold a reference to b *)
Incoming(h, S, b) ==
    UNION { { <<a, i>> : i \in { j \in 1..Len(Children(h, a)) :
                                   Children(h, a)[j] = Ref(b) } } : a \in S }

(* no object of v's graph is referenced twice: no sharing, no cycle *)
IsTree(h, v) ==
    /\ IsRef(v)
    /\ \A b \in Reach(h, v) :
          Cardinality(Incoming(h, Reach(h, v), b)) <= (IF b = v[2] THEN 0 ELSE 1)

(* some plain object of v's graph has a function-valued field *)
HasFunctionField(h, v) ==
    \E a \in Reach(h, v) :
       /\ h[a].kind = "object"
       /\ \E b \in RefsIn(h[a].vals) : h[b].kind = "function"

Min(a, b) == IF a < b THEN a ELSE b

RECURSIVE Corresponding(_, _)
Corresponding(h, S) ==
    LET T == S \cup UNION {
               { << Children(h, p[1][2])[i], Children(h, p[2][2])[i] >> :
                   i \in 1..Min(Len(Children(h, p[1][2])), Len(Children(h, p[2][2]))) } :
               p \in { q \in S : IsRef(q[1]) /\ IsRef(q[2]) } }
    IN  IF T = S THEN S ELSE Corresponding(h, T)

(* the pairs <<x, y>> such that some path leads from v to x and from w to y *)
Corr(h, v, w) == Corresponding(h, { <<v, w>> })

RECURSIVE AtDepth(_, _, _, _)
(* the triples <<x, y, k>>: a path of k steps leads from v to x and from w *)
(* to y (for a source that is a tree)                                      *)
AtDepth(h, v, w, k) ==
    { <<v, w, k>> } \cup
    IF IsRef(v) /\ IsRef(w)
    THEN UNION { AtDepth(h, Children(h, v[2])[i], Children(h, w[2])[i], k + 1) :
                   i \in 1..Min(Len(Children(h, v[2])), Len(Children(h, w[2]))) }
    ELSE {}

(* x and y are the same atomic, or objects of one kind with the same time  *)
(* value / pattern, the same keys in the same order and the same size      *)
Similar(h, x, y) ==
    IF IsRef(x) /\ IsRef(y)
    THEN /\ h[x[2]].kind = h[y[2]].kind
         /\ h[x[2]].tick = h[y[2]].tick
         /\ Len(h[x[2]].vals) = Len(h[y[2]].vals)
         /\ Len(h[x[2]].keys) = Len(h[y[2]].keys)
         /\ h[x[2]].kind = "object" => h[x[2]].keys = h[y[2]].keys
    ELSE x = y

(* y is an object allocated by the call *)
FreshRef(y) == IsRef(y) /\ y[2] > Len(pre)

(* the call has returned or raised *)
Done == phase = "done"

(* deepClone(root): no option given *)
DefaultCall ==
    /\ Done
    /\ opts.strategy = "auto"
    /\ opts.maxDepth = Infinity
    /\ opts.currentDepth = 0

(* the call got past both early returns of deepClone *)
Proceeds == Done /\ opts.currentDepth < opts.maxDepth /\ ~isPrimitive(pre, root)

-----------------------------------------------------------------------------
(* C1: in auto mode deepClone returns what the clone of the first strategy *)
(* of STRATEGIES whose canHandle is true produces; the recursive result is *)
(* returned only when neither Structured nor Json is eligible.             *)
C1_FirstEligibleStrategyUsed ==
    (Proceeds /\ opts.strategy = "auto") =>
        LET s == FirstEligible(pre, root, opts.sc)
            r == StrategyClone(s, pre, root, opts.sc)
        IN  /\ err = r.err
            /\ result = r.v
            /\ heap = r.h

-----------------------------------------------------------------------------
(* C2: clone(value, {maxDepth: d}) with d >= 1: every container at nesting *)
(* depth >= d below the root is in the result as the original instance,    *)
(* every container at depth < d is a fresh instance.                       *)

C2_DepthCutoffSharesSubtrees ==
    ( /\ Done
      /\ opts.strategy = "auto"
      /\ opts.currentDepth = 0
      /\ opts.maxDepth >= 1
      /\ IsContainer(pre, root)
      /\ IsTree(pre, root) ) =>
        /\ err = ""
        /\ \A t \in AtDepth(heap, root, result, 0) :
              IsContainer(pre, t[1]) =>
                 IF t[3] >= opts.maxDepth THEN t[2] = t[1] ELSE FreshRef(t[2])

-----------------------------------------------------------------------------
(* C3: clone(v, options) returns v itself, allocating nothing, whenever v  *)
(* is atomic, for every strategy option, and whenever currentDepth >=      *)
(* maxDepth; clone(c, {maxDepth: 0}) is c.                                 *)

C3_IdentityReturns ==
    (Done /\ (isPrimitive(pre, root) \/ opts.currentDepth >= opts.maxDepth)) =>
        /\ result = root
        /\ err = ""
        /\ heap = pre

C3_Witness ==
    /\ Done
    /\ IsContainer(pre, root)
    /\ opts.maxDepth = 0
    /\ opts.strategy = "bogus"
    /\ result = root

-----------------------------------------------------------------------------
(* every object of v's graph is a plain mapping *)
OnlyMappings(h, v) == \A a \in Reach(h, v) : h[a].kind = "object"

(* C4: with currentDepth < maxDepth and maxDepth - currentDepth = 2, on a  *)
(* mapping nested three levels deep, the containers of the result at       *)
(* relative depth 1 and 2 are distinct from the source's, and the leaf     *)
(* value is preserved.                                                     *)
C4_TwoLevelsLeftAreCloned ==
    ( /\ Proceeds
      /\ opts.strategy = "auto"
      /\ opts.maxDepth - opts.currentDepth = 2
      /\ IsTree(pre, root)
      /\ OnlyMappings(pre, root) ) =>
        /\ err = ""
        /\ \A t \in AtDepth(heap, root, result, 0) :
              /\ Similar(heap, t[1], t[2])
              /\ (IsRef(t[1]) /\ t[3] \in {1, 2}) => (FreshRef(t[2]) /\ t[2] # t[1])

C4_Witness ==
    /\ Proceeds
    /\ opts.strategy = "auto"
    /\ opts.maxDepth - opts.currentDepth = 2
    /\ opts.currentDepth = 0
    /\ pre = Nested3
    /\ \E t \in AtDepth(heap, root, result, 0) :
          t[1] = Ref(2) /\ t[3] = 1 /\ FreshRef(t[2])
    /\ \E t \in AtDepth(heap, root, result, 0) :
          t[1] = Ref(3) /\ t[3] = 2 /\ FreshRef(t[2]) /\ heap[t[2][2]].vals = <<Str(1)>>

-----------------------------------------------------------------------------
(* C5: for a container c without shared or cyclic substructure, clone(c)   *)
(* with default options is a different instance, every nested container    *)
(* of the result (Map keys, Map values, Set elements included) is a         *)
(* different instance from the corresponding source container, no source   *)
(* container is reachable from the result, and the result is structurally  *)
(* equal to c: same keys and elements in the same order, same sizes.       *)

C5_DeepDistinctness ==
    (DefaultCall /\ IsContainer(pre, root) /\ IsTree(pre, root)) =>
        /\ err = ""
        /\ FreshRef(result)
        /\ \A p \in Corr(heap, root, result) :
              /\ Similar(heap, p[1], p[2])
              /\ IsContainer(pre, p[1]) => (FreshRef(p[2]) /\ p[2] # p[1])
        /\ \A a \in Reach(heap, result) :
              a <= Len(pre) => pre[a].kind \notin ContainerKinds

C5_Witness ==
    /\ DefaultCall
    /\ IsContainer(pre, root)
    /\ IsTree(pre, root)
    /\ pre[1].kind = "map"
    /\ pre[1].keys = <<Ref(2)>>
    /\ pre[1].vals = <<Ref(3)>>
    /\ pre[3].kind = "set"
    /\ FreshRef(result)
    /\ Len(heap) = 2 * Len(pre)

-----------------------------------------------------------------------------
(* C6: a container reachable from the root by two different paths is one   *)
(* single cloned instance at both paths of the clone, different from the   *)
(* source object; every reference cycle of the source is reproduced in the *)
(* clone, and clone(c) # c.                                                *)

C6_SharingAndCyclesPreserved ==
    (DefaultCall /\ IsContainer(pre, root)) =>
        /\ err = ""
        /\ FreshRef(result)
        /\ \A p \in Corr(heap, root, result) :
              IsContainer(pre, p[1]) =>
                 /\ FreshRef(p[2])
                 /\ heap[p[2][2]].kind = pre[p[1][2]].kind
                 /\ Len(heap[p[2][2]].vals) = Len(pre[p[1][2]].vals)
                 /\ \A q \in Corr(heap, root, result) :
                       (q[1] = p[1]) <=> (q[2] = p[2])

C6_Witness ==
    /\ DefaultCall
    /\ IsContainer(pre, root)
    /\ pre[1].kind = "object"
    /\ pre[1].vals = <<Ref(2), Ref(2)>>
    /\ pre[2].kind = "array"
    /\ FreshRef(result)
    /\ heap[result[2]].vals[1] = heap[result[2]].vals[2]

C6_CycleWitness ==
    /\ DefaultCall
    /\ IsContainer(pre, root)
    /\ pre[1].kind = "object"
    /\ pre[1].vals = <<Num(1), root>>
    /\ FreshRef(result)
    /\ heap[result[2]].vals = <<Num(1), result>>

-----------------------------------------------------------------------------
(* C7: the sharing topology holds for every non-atomic kind: one Date or   *)
(* RegExp referenced from two places of the source is one and the same     *)
(* cloned instance at both places of the clone.                            *)

C7_SharedDateIsOneClone ==
    (DefaultCall /\ IsContainer(pre, root)) =>
        \A p \in Corr(heap, root, result) :
           (IsRef(p[1]) /\ pre[p[1][2]].kind \in {"date", "regexp"}) =>
              \A q \in Corr(heap, root, result) : (q[1] = p[1]) => (q[2] = p[2])

-----------------------------------------------------------------------------
(* the call named a strategy outside auto, json, structured, recursive *)
UnknownStrategy == Done /\ opts.strategy \notin StrategyNames

(* C8, as stated: a call whose strategy is no known name always fails with *)
(* 'Unknown strategy: <name>', for every value and every maxDepth /        *)
(* currentDepth, atomic values and maxDepth 0 included; it never returns a *)
(* value.                                                                  *)
C8_UnknownStrategyAlwaysFails ==
    UnknownStrategy => (err = "Unknown strategy: " \o opts.strategy /\ result = Undefined)

(* C8, amended: a call whose strategy is no known name fails with 'Unknown *)
(* strategy: <name>' and returns no value exactly when the value is not    *)
(* atomic and currentDepth < maxDepth; for an atomic value or currentDepth *)
(* >= maxDepth it returns the value itself and raises nothing.             *)
C8_UnknownStrategyFailsPastEarlyReturns ==
    UnknownStrategy =>
        IF isPrimitive(pre, root) \/ opts.currentDepth >= opts.maxDepth
        THEN err = "" /\ result = root
        ELSE /\ err = "Unknown strategy: " \o opts.strategy
             /\ result = Undefined
             /\ heap = pre
             /\ used = "none"

C8_Witness ==
    /\ UnknownStrategy
    /\ Proceeds
    /\ HasCycle(pre, root)
    /\ err = "Unknown strategy: bogus"

-----------------------------------------------------------------------------
(* C9: a forced strategy has no fallback: with 'json', 'structured' or     *)
(* 'recursive' and a non-atomic value exactly that strategy is invoked; if *)
(* it cannot handle the value (json on a cycle, structured without the     *)
(* host's structuredClone) its error reaches the caller and no other       *)
(* strategy's result is returned.                                          *)

-----------------------------------------------------------------------------
(* C10: for every value with a function-valued field JsonStrategy.canHandle *)
(* is false and deepClone(value, {strategy: 'json'}) throws 'Object         *)
(* contains non-serializable values'.                                      *)

C10_FunctionFieldRejectedByJson ==
    ( /\ Done
      /\ opts.strategy = "json"
      /\ opts.maxDepth = Infinity
      /\ opts.currentDepth = 0
      /\ HasFunctionField(pre, root) ) =>
        /\ ~JsonCanHandle(pre, root)
        /\ err = "Object contains non-serializable values"

-----------------------------------------------------------------------------
(* the source objects of v's graph that lie on a reference cycle *)
OnCycle(h, a) == a \in ReachFrom(h, RefsIn(Children(h, a)))

(* C11: in auto mode deepClone never raises, whatever the value (function  *)
(* or symbol fields, cycles, Date, RegExp, Map, Set) and whether or not    *)
(* the host has structuredClone; function-valued fields of the result are  *)
(* functions, Date / RegExp / Map / Set fields are instances of the same   *)
(* kind, and cycles are preserved.                                         *)
C11_AutoNeverRaises ==
    (Done /\ opts.strategy = "auto") =>
        /\ err = ""
        /\ \A p \in Corr(heap, root, result) :
              IF IsRef(p[1])
              THEN /\ IsRef(p[2])
                   /\ heap[p[2][2]].kind = pre[p[1][2]].kind
                   /\ OnCycle(pre, p[1][2]) => OnCycle(heap, p[2][2])
              ELSE p[2] = p[1]

C11_Witness ==
    /\ Proceeds
    /\ opts.strategy = "auto"
    /\ opts.sc
    /\ pre[1].kind = "object"
    /\ pre[1].vals = <<Ref(2), root>>
    /\ pre[2].kind = "function"
    /\ err = ""
    /\ FreshRef(result)
    /\ heap[result[2]].vals = <<Ref(2), result>>

C11_MapWitness ==
    /\ Proceeds
    /\ opts.strategy = "auto"
    /\ ~opts.sc
    /\ pre[1].kind = "map"
    /\ Len(pre) = 3
    /\ pre[3].kind = "date"
    /\ err = ""
    /\ FreshRef(result)
    /\ heap[result[2]].kind = "map"
    /\ heap[heap[result[2]].vals[1][2]].kind = "date"

-----------------------------------------------------------------------------
(* v is JSON-compatible: mappings and sequences, nested without cycles,    *)
(* of strings, finite numbers, booleans and null                           *)
JsonCompatible(h, v) ==
    /\ IsRef(v)
    /\ \A a \in Reach(h, v) :
          /\ h[a].kind \in {"object", "array"}
          /\ \A i \in 1..Len(h[a].vals) :
                \/ IsRef(h[a].vals[i])
                \/ h[a].vals[i][1] \in {"string", "number", "boolean", "null"}
    /\ ~HasCycle(h, v)

(* x and y are structurally equal: the same atomics, keys and sizes at     *)
(* every pair of corresponding places                                      *)
StructurallyEqual(h, x, y) == \A p \in Corr(h, x, y) : Similar(h, p[1], p[2])

(* C12: for every JSON-compatible v, JsonStrategy.clone(v),                *)
(* RecursiveStrategy.clone(v) and, when the host has structuredClone,      *)
(* StructuredStrategy.clone(v) all return, are structurally equal to each  *)
(* other and to v, and none of them is the same instance as v.             *)
C12_StrategiesAgreeOnPlainData ==
    (phase = "compared" /\ JsonCompatible(pre, root)) =>
        /\ err = ""
        /\ Len(outs) = (IF opts.sc THEN 3 ELSE 2)
        /\ \A i \in 1..Len(outs) :
              /\ FreshRef(outs[i])
              /\ outs[i] # root
              /\ StructurallyEqual(heap, outs[i], root)
              /\ \A j \in 1..Len(outs) : StructurallyEqual(heap, outs[i], outs[j])

C12_Witness ==
    /\ phase = "compared"
    /\ JsonCompatible(pre, root)
    /\ opts.sc
    /\ pre[1].kind = "object"
    /\ pre[1].vals = <<Ref(2), Ref(2)>>
    /\ pre[2].kind = "array"
    /\ Len(outs) = 3
    /\ heap[outs[1][2]].vals[1] # heap[outs[1][2]].vals[2]
    /\ heap[outs[2][2]].vals[1] = heap[outs[2][2]].vals[2]

-----------------------------------------------------------------------------
(* updateNested(root, path, value) on a mapping, with a path of at least   *)
(* one key, has returned or raised                                         *)
UpdatedNested ==
    /\ phase = "updated"
    /\ call.op = "updateNested"
    /\ IsRef(root)
    /\ pre[root[2]].kind = "object"
    /\ parsePath(call.path) # <<>>

(* no object that existed before the call has changed *)
SourceUntouched == \A a \in 1..Len(pre) : heap[a] = pre[a]

(* the containers both y's graph and x's graph reach *)
SharedContainers(h, x, y) ==
    { a \in Reach(h, x) \cap Reach(h, y) : h[a].kind \in ContainerKinds }

(* C13, as stated: for every mapping obj, every non-empty path and every   *)
(* value, updateNested(obj, path, value) with default options returns an   *)
(* object different from obj in which the path resolves to value, obj and  *)
(* every container reachable from it are left as they were, and the result *)
(* shares no container with obj.                                           *)
C13_UpdateNestedNeverShares ==
    (UpdatedNested /\ call.clone) =>
        /\ err = ""
        /\ IsRef(result)
        /\ result # root
        /\ getPath(heap, result, call.path, Undefined) = call.value
        /\ SourceUntouched
        /\ SharedContainers(heap, root, result) = {}

(* C13, amended: for every mapping obj, every non-empty path and every     *)
(* value, updateNested(obj, path, value) with default options returns an   *)
(* object different from obj and leaves obj and every container reachable  *)
(* from it as they were; the result shares no container with obj other     *)
(* than the containers reachable from value, which is assigned as it is;   *)
(* and when obj holds no reference cycle the path resolves to value in the *)
(* result.                                                                 *)
C13_UpdateNestedLeavesSourceAlone ==
    (UpdatedNested /\ call.clone) =>
        /\ err = ""
        /\ IsRef(result)
        /\ result # root
        /\ SourceUntouched
        /\ SharedContainers(heap, root, result) \subseteq Reach(pre, call.value)
        /\ ~HasCycle(pre, root) =>
              getPath(heap, result, call.path, Undefined) = call.value

C13_Witness ==
    /\ UpdatedNested
    /\ call.clone
    /\ pre = Nested3
    /\ call.path = StringPath(<<Str(1), Str(1), Str(1)>>)
    /\ call.value = Num(2)
    /\ err = ""
    /\ FreshRef(result)
    /\ getPath(heap, result, call.path, Undefined) = Num(2)
    /\ getPath(heap, root, call.path, Undefined) = Str(1)

-----------------------------------------------------------------------------
(* setPath(root, path, value) on a mapping (updateNested with clone:       *)
(* false), with a path of at least one key, has returned or raised         *)
WroteInPlace == UpdatedNested /\ ~call.clone

(* the first i keys of the parsed path, as a path *)
Prefix(path, i) == ArrayPath(SubSeq(parsePath(path), 1, i))

(* C14, as stated: after setPath(container, path, value) with a path of at *)
(* least one segment, hasPath(container, path) is true and getPath returns *)
(* value (other than undefined); for every segment except the last, a key  *)
(* that was absent or held an atomic now holds a mapping created by the    *)
(* write.                                                                  *)
C14_WriteThenRead ==
    WroteInPlace =>
        /\ err = ""
        /\ hasPath(heap, root, call.path)
        /\ call.value # Undefined =>
              getPath(heap, root, call.path, Undefined) = call.value
        /\ \A i \in 1..(Len(parsePath(call.path)) - 1) :
              ~IsRef(getPath(pre, root, Prefix(call.path, i), Undefined)) =>
                 LET now == getPath(heap, root, Prefix(call.path, i), Undefined)
                 IN  FreshRef(now) /\ heap[now[2]].kind = "object"

(* C14, amended: on a container without reference cycles, after            *)
(* setPath(container, path, value) with a path of at least one segment     *)
(* hasPath(container, path) is true and getPath returns value (other than  *)
(* undefined); for every segment except the last, a key that was absent or *)
(* held an atomic now holds a mapping created by the write.                *)
C14_WriteThenReadAcyclic ==
    (WroteInPlace /\ ~HasCycle(pre, root)) =>
        /\ err = ""
        /\ hasPath(heap, root, call.path)
        /\ call.value # Undefined =>
              getPath(heap, root, call.path, Undefined) = call.value
        /\ \A i \in 1..(Len(parsePath(call.path)) - 1) :
              ~IsRef(getPath(pre, root, Prefix(call.path, i), Undefined)) =>
                 LET now == getPath(heap, root, Prefix(call.path, i), Undefined)
                 IN  FreshRef(now) /\ heap[now[2]].kind = "object"

C14_Witness ==
    /\ WroteInPlace
    /\ pre = <<Empty("object")>>
    /\ call.path = StringPath(<<Str(1), Str(1), Str(1)>>)
    /\ call.value = Num(2)
    /\ Len(heap) = 3
    /\ heap[1].vals = <<Ref(2)>>
    /\ heap[2].vals = <<Ref(3)>>
    /\ heap[3].vals = <<Num(2)>>
    /\ hasPath(heap, root, call.path)

-----------------------------------------------------------------------------
(* the own property names of o *)
KeysOf(o) == { o.keys[i] : i \in 1..Len(o.keys) } \cup { Index(i - 1) : i \in 1..NumElements(o) }

(* the place <<a, key>> of an object that existed before the write which   *)
(* the path assigns: the last key in the container the path leads to, or   *)
(* the first key on the way that held no object                            *)
RECURSIVE AssignedPlace(_, _, _, _)
AssignedPlace(h, current, keys, i) ==
    LET held == Get(h, current[2], keys[i])
    IN  IF i = Len(keys) \/ Falsy(held) \/ TypeOf(h, held) # "object"
        THEN <<current[2], keys[i]>>
        ELSE AssignedPlace(h, held, keys, i + 1)

(* the number of keys the path passes through existing objects with,      *)
(* before that place                                                       *)
RECURSIVE KeptSteps(_, _, _, _)
KeptSteps(h, current, keys, i) ==
    LET held == Get(h, current[2], keys[i])
    IN  IF i = Len(keys) \/ Falsy(held) \/ TypeOf(h, held) # "object"
        THEN 0
        ELSE 1 + KeptSteps(h, held, keys, i + 1)

(* C15: setPath and updateNested(..., {clone: false}) return the very      *)
(* reference they were given; the containers that exist on the path are    *)
(* kept, each the same instance, and only the last key is assigned in      *)
(* them; every key not on the path keeps its previous value.               *)
C15_InPlaceWriteFrame ==
    WroteInPlace =>
        LET keys == parsePath(call.path)
            place == AssignedPlace(pre, root, keys, 1)
        IN  /\ err = ""
            /\ result = root
            /\ Len(heap) = Len(pre) + (Len(keys) - 1 - KeptSteps(pre, root, keys, 1))
            /\ \A a \in 1..Len(pre) :
                  /\ heap[a].kind = pre[a].kind
                  /\ heap[a].tick = pre[a].tick
                  /\ \A key \in KeysOf(pre[a]) \cup KeysOf(heap[a]) :
                        <<a, key>> # place =>
                           /\ Get(heap, a, key) = Get(pre, a, key)
                           /\ HasProperty(heap, a, key) = HasProperty(pre, a, key)
            /\ HasProperty(heap, place[1], place[2])

C15_Witness ==
    /\ WroteInPlace
    /\ Len(pre) = 3
    /\ pre[1].kind = "object"
    /\ pre[1].vals = <<Ref(2), Ref(3)>>
    /\ pre[2].kind = "object"
    /\ call.path = StringPath(<<Str(1), Str(2)>>)
    /\ call.value = Num(2)
    /\ result = root
    /\ heap[1] = pre[1]
    /\ heap[3] = pre[3]
    /\ heap[2].keys = <<Str(2)>>
    /\ heap[2].vals = <<Num(2)>>
    /\ Len(heap) = 3

-----------------------------------------------------------------------------
(* C16: updateNested raises an error when the path is empty ('', '.',      *)
(* '...' or an empty array), and then neither obj nor a returned value     *)
(* gains any key.                                                          *)
C16_EmptyPathRejected ==
    ( /\ phase = "updated"
      /\ call.op = "updateNested"
      /\ IsRef(root)
      /\ parsePath(call.path) = <<>> ) =>
        /\ err # ""
        /\ result = Undefined
        /\ \A a \in 1..Len(heap) : a <= Len(pre) /\ heap[a] = pre[a]

-----------------------------------------------------------------------------
(* the root handed to the operation is null, undefined, a number, a string *)
(* or a boolean                                                            *)
NonContainerRoot == root[1] \in {"null", "undefined", "number", "string", "boolean"}

(* C17: updateNested, updateMultiple and deepMerge fail with an error      *)
(* whenever the root argument is not a keyed container (null, undefined,   *)
(* number, string, boolean), for every path, every updates mapping (an     *)
(* empty one included) and every source (an empty one included); they      *)
(* never return normally.                                                  *)
C17_NonContainerRootRejected ==
    ( /\ phase \in {"updated", "merged"}
      /\ call.op \in {"updateNested", "updateMultiple", "deepMerge"}
      /\ NonContainerRoot ) =>
        /\ err # ""
        /\ result = Undefined

-----------------------------------------------------------------------------
(* updateMultiple(root, updates) on a mapping without shared or cyclic     *)
(* substructure, with default options, has returned or raised              *)
UpdatedMultiple ==
    /\ phase = "updated"
    /\ call.op = "updateMultiple"
    /\ call.clone
    /\ IsRef(root)
    /\ IsTree(pre, root)

(* one of the two paths is a prefix of the other *)
PathsOverlap(p, q) ==
    LET k == parsePath(p)
        l == parsePath(q)
        n == Min(Len(k), Len(l))
    IN  SubSeq(k, 1, n) = SubSeq(l, 1, n)

(* every entry of updates that no overlapping entry comes after, in the    *)
(* order Before, is read back from the result                              *)
EachWriteStands(Before(_, _)) ==
    \A i \in 1..Len(call.updates) :
       (\A j \in 1..Len(call.updates) :
           (j # i /\ PathsOverlap(call.updates[i][1], call.updates[j][1])) => Before(j, i))
       => getPath(heap, result, call.updates[i][1], Undefined) = call.updates[i][2]

(* entry i of u comes before entry j in the order of Object.entries:       *)
(* integer-like keys first, ascending, then the other keys as written      *)
IteratedBefore(u, i, j) ==
    IF IntegerKey(u[i])
    THEN ~IntegerKey(u[j]) \/ u[i][1].parts[1][2] < u[j][1].parts[1][2]
    ELSE ~IntegerKey(u[j]) /\ i < j

(* C18, as stated: the writes of updateMultiple go to one clone in the     *)
(* order in which the entries appear in updates, so the later entry wins   *)
(* when two paths overlap, for every pair of overlapping path strings,     *)
(* whatever their segment names.                                           *)
C18_LaterWrittenEntryWins ==
    UpdatedMultiple =>
        /\ err = ""
        /\ FreshRef(result)
        /\ EachWriteStands(LAMBDA i, j : i < j)

(* C18, amended: the writes of updateMultiple go to one clone in the order *)
(* of Object.entries(updates): keys that are integer-like strings first,   *)
(* in ascending numeric order, then the other keys in the order they were  *)
(* written; of two overlapping paths the one that comes later in that      *)
(* order wins.                                                             *)
C18_LaterIteratedEntryWins ==
    UpdatedMultiple =>
        /\ err = ""
        /\ FreshRef(result)
        /\ \A a \in Reach(pre, root) : heap[a] = pre[a]
        /\ EachWriteStands(LAMBDA i, j : IteratedBefore(call.updates, i, j))

C18_Witness ==
    /\ UpdatedMultiple
    /\ pre = <<Empty("object"), Empty("object")>>
    /\ call.updates = << <<StringPath(<<Str(1)>>), Num(2)>>,
                         <<StringPath(<<Str(1), Str(2)>>), Num(3)>> >>
    /\ FreshRef(result)
    /\ heap[result[2]].keys = <<Str(1)>>
    /\ IsRef(heap[result[2]].vals[1])
    /\ heap[heap[result[2]].vals[1][2]].keys = <<Str(2)>>
    /\ heap[heap[result[2]].vals[1][2]].vals = <<Num(3)>>

C18_ReverseWitness ==
    /\ UpdatedMultiple
    /\ pre = <<Empty("object"), Empty("object")>>
    /\ call.updates = << <<StringPath(<<Str(1), Str(2)>>), Num(2)>>,
                         <<StringPath(<<Str(1)>>), Num(3)>> >>
    /\ FreshRef(result)
    /\ heap[result[2]].keys = <<Str(1)>>
    /\ heap[result[2]].vals = <<Num(3)>>

-----------------------------------------------------------------------------
(* deepMerge has returned or raised *)
MergedCall == phase = "merged" /\ call.op = "deepMerge"

(* v is a mapping: a plain object *)
IsMapping(h, v) == IsRef(v) /\ h[v[2]].kind = "object"

KeySet(o) == { OwnKeys(o)[i] : i \in 1..Len(OwnKeys(o)) }

RECURSIVE PairedAcross(_, _, _)
(* the pairs <<x, y>>: some path leads from v to x in g and from w to y in h *)
PairedAcross(g, h, S) ==
    LET T == S \cup UNION {
               { << Children(g, p[1][2])[i], Children(h, p[2][2])[i] >> :
                   i \in 1..Min(Len(Children(g, p[1][2])), Len(Children(h, p[2][2]))) } :
               p \in { q \in S : IsRef(q[1]) /\ IsRef(q[2]) } }
    IN  IF T = S THEN S ELSE PairedAcross(g, h, T)

(* x in g and y in h have the same value: the same atomics, kinds, keys in *)
(* the same order and elements in the same order at every pair of          *)
(* corresponding places                                                    *)
SameValue(g, x, h, y) ==
    \A p \in PairedAcross(g, h, { <<x, y>> }) :
       IF IsRef(p[1]) /\ IsRef(p[2])
       THEN /\ g[p[1][2]].kind = h[p[2][2]].kind
            /\ g[p[1][2]].tick = h[p[2][2]].tick
            /\ g[p[1][2]].keys = h[p[2][2]].keys
            /\ Len(g[p[1][2]].vals) = Len(h[p[2][2]].vals)
       ELSE p[1] = p[2]

(* r is a sequence holding the values of the elements es, in order *)
HoldsElements(es, r) ==
    /\ IsArrayValue(heap, r)
    /\ heap[r[2]].keys = <<>>
    /\ Len(heap[r[2]].vals) = Len(es)
    /\ \A i \in 1..Len(es) : SameValue(pre, es[i], heap, heap[r[2]].vals[i])

RECURSIVE ReferenceMerge(_, _, _)
(* r is the reference merge of the mapping t (0 for the empty mapping)     *)
(* and the mapping s, both as they were before the call.  Nothing is       *)
(* said of a key where the source holds a Date or a function, or where the *)
(* source holds a mapping and the target a sequence, a Date or a function. *)
ReferenceMerge(t, s, r) ==
    LET TKeys == IF t = 0 THEN {} ELSE KeySet(pre[t])
        SKeys == KeySet(pre[s])
    IN  /\ IsMapping(heap, r)
        /\ KeySet(heap[r[2]]) = TKeys \cup SKeys
        /\ \A k \in TKeys \ SKeys : SameValue(pre, Get(pre, t, k), heap, Get(heap, r[2], k))
        /\ \A k \in SKeys :
              LET sv == Get(pre, s, k)
                  tv == IF t = 0 THEN Undefined ELSE Get(pre, t, k)
                  rv == Get(heap, r[2], k)
              IN  IF ~IsRef(sv) THEN rv = sv
                  ELSE IF IsArrayValue(pre, sv)
                  THEN IF call.arrayStrategy = "merge" /\ IsArrayValue(pre, tv)
                       THEN HoldsElements(Elements(pre[tv[2]]) \o Elements(pre[sv[2]]), rv)
                       ELSE HoldsElements(Elements(pre[sv[2]]), rv)
                  ELSE IF IsMapping(pre, sv)
                  THEN IF IsMapping(pre, tv) THEN ReferenceMerge(tv[2], sv[2], rv)
                       ELSE IF IsRef(tv) THEN TRUE
                       ELSE ReferenceMerge(0, sv[2], rv)
                  ELSE TRUE

(* C19 as stated: for all mappings target and source, the result of        *)
(* deepMerge is the reference merge: at every level exactly the keys of    *)
(* target plus the own keys of source; a key only in target keeps          *)
(* target's value; an atomic of source is taken; two mappings are merged   *)
(* recursively; a sequence of source replaces ('replace') or is appended   *)
(* to target's sequence ('merge')                                          *)
C19_ReferenceMerge ==
    (MergedCall /\ err = "" /\ IsMapping(pre, root) /\ IsMapping(pre, call.source))
       => ReferenceMerge(root[2], call.source[2], result)

(* C19, amended: the same for a target that is a tree (no object of it     *)
(* referenced twice, no cycle)                                             *)
C19_ReferenceMergeOfTree ==
    (MergedCall /\ err = "" /\ IsTree(pre, root) /\ IsMapping(pre, root)
       /\ IsMapping(pre, call.source))
       => ReferenceMerge(root[2], call.source[2], result)

(* merge({a: 1, b: {c: 2}}, {b: {d: 3}, e: 4}) = {a: 1, b: {c: 2, d: 3}, e: 4} *)
C19_Witness ==
    /\ MergedCall
    /\ pre = MergeDeeplyLiterals
    /\ call.source = Ref(2)
    /\ err = ""
    /\ FreshRef(result)
    /\ heap[result[2]].keys = <<Str(1), Str(2), Str(5)>>
    /\ heap[result[2]].vals[1] = Num(1)
    /\ heap[result[2]].vals[3] = Num(4)
    /\ FreshRef(heap[result[2]].vals[2])
    /\ heap[heap[result[2]].vals[2][2]].keys = <<Str(3), Str(4)>>
    /\ heap[heap[result[2]].vals[2][2]].vals = <<Num(2), Num(3)>>

(* merge({items: [1, 2]}, {items: [3, 4]}, {arrayStrategy: 'merge'})       *)
(* = {items: [1, 2, 3, 4]}                                                 *)
C19_ArrayWitness ==
    /\ MergedCall
    /\ pre = ArrayMergeLiterals
    /\ call.source = Ref(2)
    /\ call.arrayStrategy = "merge"
    /\ err = ""
    /\ FreshRef(heap[result[2]].vals[1])
    /\ heap[heap[result[2]].vals[1][2]].vals = <<Num(1), Num(2), Num(3), Num(4)>>

-----------------------------------------------------------------------------
(* the objects reachable from the target or from the source of the call *)
MergeInputs == Reach(pre, root) \cup Reach(pre, call.source)

(* C20: deepMerge never mutates its inputs: after deepMerge returns, under *)
(* either array strategy, every container reachable from target or from    *)
(* source has the keys, the values and the element order it had before     *)
C20_MergeLeavesInputsAlone ==
    (MergedCall /\ err = "") => \A a \in MergeInputs : heap[a] = pre[a]

-----------------------------------------------------------------------------
(* the keys at which target and source both hold a sequence *)
SequenceKeys ==
    { k \in KeySet(pre[root[2]]) \cap KeySet(pre[call.source[2]]) :
        /\ IsArrayValue(pre, Get(pre, root[2], k))
        /\ IsArrayValue(pre, Get(pre, call.source[2], k)) }

ElementSet(o) == { Elements(o)[i] : i \in 1..NumElements(o) }

(* the elements of the result's sequence at key k that follow those taken  *)
(* from the accumulator                                                    *)
Appended(k) ==
    LET r == heap[Get(heap, result[2], k)[2]]
        n == NumElements(pre[Get(pre, root[2], k)[2]])
    IN  { r.vals[i] : i \in n + 1..NumElements(r) }

(* C21: under arrayStrategy 'merge', where the accumulator and the source  *)
(* both hold a sequence at a key, the elements appended from the source    *)
(* are fresh clones: no container among them is an element of the          *)
(* source's sequence                                                       *)
C21_AppendedElementsAreClones ==
    (MergedCall /\ err = "" /\ call.arrayStrategy = "merge"
       /\ IsMapping(pre, root) /\ IsMapping(pre, call.source))
       => \A k \in SequenceKeys :
             IsArrayValue(heap, Get(heap, result[2], k))
                => \A e \in Appended(k) :
                      (IsRef(e) /\ heap[e[2]].kind # "function")
                         => e \notin ElementSet(pre[Get(pre, call.source[2], k)[2]])

-----------------------------------------------------------------------------
(* C22: where the source holds a Date or a RegExp at a key, the result     *)
(* holds at that key a fresh clone of it: another instance, of the same    *)
(* kind, with the same time value / pattern and flags                      *)
C22_DateAssignedAsClone ==
    (MergedCall /\ err = "" /\ IsMapping(pre, root) /\ IsMapping(pre, call.source))
       => \A k \in KeySet(pre[call.source[2]]) :
             LET sv == Get(pre, call.source[2], k)
                 rv == Get(heap, result[2], k)
             IN  (IsRef(sv) /\ pre[sv[2]].kind \in {"date", "regexp"})
                    => /\ IsRef(rv)
                       /\ rv # sv
                       /\ heap[rv[2]].kind = pre[sv[2]].kind
                       /\ heap[rv[2]].tick = pre[sv[2]].tick

-----------------------------------------------------------------------------
(* Types.isCircular(root) has returned *)
CheckedCircular == phase = "checked" /\ call.op = "isCircular"

(* C23: Types.isCircular(v) is true exactly when the graph reachable from  *)
(* v contains a reference cycle: false for atomics and for every acyclic   *)
(* graph, one with a sub-object referenced from two places included        *)
C23_IsCircularIffCycle ==
    CheckedCircular => (result = Boolean(TRUE) <=> HasCycle(pre, root))

-----------------------------------------------------------------------------
(* Utils.hasPath(root, path) has returned *)
CheckedPath == phase = "read" /\ call.op = "hasPath"

RECURSIVE ResolvesThroughOwnKeys(_, _, _)
(* every segment keys[i ..] resolves, from current on, through an own key  *)
(* of a value that is an object                                            *)
ResolvesThroughOwnKeys(current, keys, i) ==
    \/ i > Len(keys)
    \/ /\ IsRef(current)
       /\ pre[current[2]].kind # "function"
       /\ HasOwnProperty(pre, current[2], keys[i])
       /\ ResolvesThroughOwnKeys(Get(pre, current[2], keys[i]), keys, i + 1)

(* C24: Utils.hasPath(container, path) is true only when every segment     *)
(* resolves through own keys, and false as soon as the current value is    *)
(* null or absent, is no keyed container, or lacks the next segment as an  *)
(* own key (an inherited key such as 'toString' does not count)            *)
C24_HasPathOwnKeys ==
    CheckedPath =>
       result = Boolean(ResolvesThroughOwnKeys(root, parsePath(call.path), 1))

-----------------------------------------------------------------------------
(* Utils.getPath(root, path, defaultValue) has returned *)
GotPath == phase = "read" /\ call.op = "getPath"

RECURSIVE Resolved(_, _, _)
(* the value the segments keys[i ..] lead to from current, for a path that *)
(* hasPath accepts                                                         *)
Resolved(current, keys, i) ==
    IF i > Len(keys) THEN current
    ELSE Resolved(Get(pre, current[2], keys[i]), keys, i + 1)

(* C25: getPath returns the fallback exactly when hasPath is false or the  *)
(* resolved value is undefined, and the resolved value (null included)     *)
(* otherwise; a key present with the value undefined gives hasPath true    *)
(* and getPath the fallback                                                *)
C25_GetPathAgreesWithHasPath ==
    GotPath =>
       LET keys == parsePath(call.path)
       IN  IF ~hasPath(pre, root, call.path)
           THEN result = call.defaultValue
           ELSE IF Resolved(root, keys, 1) = Undefined
           THEN result = call.defaultValue
           ELSE result = Resolved(root, keys, 1)

(* getPath({a: undefined}, 'a', 2) = 2 while hasPath({a: undefined}, 'a')  *)
C25_Witness ==
    /\ GotPath
    /\ IsRef(root)
    /\ pre[1].kind = "object"
    /\ pre[1].keys = <<Str(1)>>
    /\ pre[1].vals = <<Undefined>>
    /\ call.path = StringPath(<<Str(1)>>)
    /\ call.defaultValue = Num(2)
    /\ hasPath(pre, root, call.path)
    /\ result = Num(2)

(* getPath({a: null}, 'a', 2) = null *)
C25_NullWitness ==
    /\ GotPath
    /\ IsRef(root)
    /\ pre[1].keys = <<Str(1)>>
    /\ pre[1].vals = <<Null>>
    /\ call.path = StringPath(<<Str(1)>>)
    /\ call.defaultValue = Num(2)
    /\ result = Null

-----------------------------------------------------------------------------
(* the name of the letters text[i .. j] *)
RECURSIVE NameOfRun(_, _, _)
NameOfRun(text, i, j) ==
    IF j < i THEN 0 ELSE 3 * NameOfRun(text, i, j - 1) + Letter(text[j])

(* the non-empty segments of text: the maximal runs of letters, <<i, j>>   *)
(* being the run text[i .. j]                                              *)
Runs(text) ==
    { r \in (1..Len(text)) \X (1..Len(text)) :
        /\ r[1] <= r[2]
        /\ \A k \in r[1]..r[2] : text[k] # Dot
        /\ r[1] = 1 \/ text[r[1] - 1] = Dot
        /\ r[2] = Len(text) \/ text[r[2] + 1] = Dot }

(* keys is the sequence of the non-empty segments of text, in order *)
IsSegmentsOf(keys, text) ==
    /\ Len(keys) = Cardinality(Runs(text))
    /\ \A r \in Runs(text) :
          keys[1 + Cardinality({ q \in Runs(text) : q[1] < r[1] })]
             = Str(NameOfRun(text, r[1], r[2]))

(* C26: Utils.parsePath of a dot-separated string is the ordered sequence  *)
(* of its non-empty segments (leading, trailing and doubled dots give no   *)
(* segment, '' and '...' give the empty sequence); an array is returned    *)
(* unchanged; parsing the outcome again returns it unchanged               *)
C26_ParsePathSegments ==
    /\ (phase \in {"parsed", "reparsed"} /\ ~call.path.isArray)
          => IsSegmentsOf(outs[1], call.text)
    /\ (phase \in {"parsed", "reparsed"} /\ call.path.isArray)
          => outs[1] = call.path.parts
    /\ phase = "reparsed" => outs[2] = outs[1]

(* parsePath('.a.b') = ['a', 'b'], parsed again to the same *)
C26_Witness ==
    /\ phase = "reparsed"
    /\ call.text = <<".", "a", ".", "b">>
    /\ outs = << <<Str(1), Str(2)>>, <<Str(1), Str(2)>> >>

(* parsePath('...') = [] *)
C26_DotsWitness ==
    /\ phase = "parsed"
    /\ call.text = <<".", ".", ".">>
    /\ ~call.path.isArray
    /\ outs = << <<>> >>

-----------------------------------------------------------------------------
(* the call was served by RecursiveStrategy.clone(root) and returned *)
ClonedRecursively == Done /\ err = "" /\ used = "recursive"

(* the containers of the source graph *)
SourceContainers == { a \in Reach(pre, root) : pre[a].kind \in ContainerKinds }

(* the containers allocated by the call *)
NewContainers == { c \in Len(pre) + 1..Len(heap) : heap[c].kind \in ContainerKinds }

(* C27: RecursiveStrategy.clone returns for every finite graph, cyclic     *)
(* ones included; each source container is allocated one clone and no      *)
(* more, and seen maps each source container to exactly one clone, a new   *)
(* object of the same kind                                                 *)
C27_OneClonePerContainer ==
    ClonedRecursively =>
       LET r == RecursiveClone(pre, NoSeen, root)
           seen == r.seen
           S == SourceContainers
           N == NewContainers
       IN  /\ heap = r.h
           /\ DOMAIN seen = S
           /\ \A a \in S : seen[a] \in N /\ heap[seen[a]].kind = pre[a].kind
           /\ \A a, b \in S : seen[a] = seen[b] => a = b
           /\ Cardinality(N) = Cardinality(S)

(* a Map that holds itself as a value, cloned by the recursive strategy *)
C27_Witness ==
    /\ ClonedRecursively
    /\ pre[1].kind = "map"
    /\ pre[1].vals = <<Ref(1)>>
    /\ HasCycle(pre, root)
    /\ FreshRef(result)
    /\ heap[result[2]].vals = <<result>>
    /\ Len(heap) = Len(pre) + 1

(* a cycle through an array and a Set *)
C27_SetWitness ==
    /\ ClonedRecursively
    /\ pre[1].kind = "array"
    /\ Len(pre) >= 2
    /\ pre[2].kind = "set"
    /\ pre[1].vals[1] = Ref(2)
    /\ Ref(1) \in { pre[2].vals[i] : i \in 1..Len(pre[2].vals) }
    /\ Cardinality(NewContainers) = Cardinality(SourceContainers)

-----------------------------------------------------------------------------
(* the containers supplied as values in updates *)
SuppliedContainers ==
    { call.updates[i][2][2] : i \in { j \in 1..Len(call.updates) : IsRef(call.updates[j][2]) } }

(* C29: updateMultiple with default options mutates nothing the caller     *)
(* passed in: after it returns, obj is unchanged and every container       *)
(* supplied as a value in updates is unchanged, also when a later entry's  *)
(* path descends into the place an earlier entry put the container at      *)
C29_BatchLeavesArgumentsAlone ==
    (phase = "updated" /\ call.op = "updateMultiple" /\ call.clone /\ err = "")
       => /\ \A a \in Reach(pre, root) : heap[a] = pre[a]
          /\ \A x \in SuppliedContainers : heap[x] = pre[x]

-----------------------------------------------------------------------------
RECURSIVE UpdateEach(_, _, _, _)
(* updateNested(... updateNested(obj, p1, v1) ..., pn, vn) for the entries *)
(* i .. n, every call with the default options; an error ends the chain    *)
UpdateEach(h, obj, entries, i) ==
    IF i > Len(entries) THEN Returned(h, obj, "none")
    ELSE LET r == updateNested(h, obj, entries[i][1], entries[i][2], [clone |-> TRUE])
         IN  IF r.err # "" THEN r ELSE UpdateEach(r.h, r.v, entries, i + 1)

(* the chain of single updates, made on the objects as they were before    *)
(* the batch                                                               *)
Chained == UpdateEach(pre, root, ObjectEntries(call.updates), 1)

(* updateMultiple(obj, updates) on a mapping obj, default options *)
BatchOnMapping ==
    /\ phase = "updated"
    /\ call.op = "updateMultiple"
    /\ call.clone
    /\ IsMapping(pre, root)

(* C28: for every mapping obj and ordered updates, updateMultiple(obj,     *)
(* updates) is structurally equal to the chain of updateNested calls in    *)
(* the same order, and obj is unchanged by both                            *)
C28_BatchEqualsChain ==
    BatchOnMapping =>
       LET c == Chained
       IN  /\ (err = "") = (c.err = "")
           /\ err = "" =>
                 /\ SameValue(c.h, c.v, heap, result)
                 /\ \A a \in Reach(pre, root) : heap[a] = pre[a] /\ c.h[a] = pre[a]

-----------------------------------------------------------------------------
(* C30: deepMerge terminates for every finite target and source, a source  *)
(* with a reference cycle through mappings included (s.self = s): the      *)
(* fold visits each source container a bounded number of times and         *)
(* returns a result                                                        *)
C30_MergeReturns ==
    (MergedCall /\ IsMapping(pre, root) /\ IsMapping(pre, call.source)) => err = ""

====
